---- MODULE Spec2Model ----
(***************************************************************************)
(* A model of the retrieve -> rerank -> generate -> validate pipeline of   *)
(* the RAG service (api.py, src/retriever.py, src/generator.py) and of its *)
(* guardrail layer (src/guardrails.py).                                    *)
(*                                                                         *)
(* Strings are sequences of code points (0..255).  A Python value is a     *)
(* record [t, v]: t is its type and v its content as a sequence.           *)
(***************************************************************************)
EXTENDS Integers, Sequences, FiniteSets, TLC

VARIABLES
    gcall,            \* a guardrail function called on its own: name, arguments, outcome
    pc,               \* the stage answer_endpoint is at
    question,         \* request.question
    sanitized_query,
    faiss_results,    \* retrieve_with_reranking: the candidates, as indices into CHUNKS
    rr_i,             \* rerank: the candidate being scored
    rr_attempt,       \* rerank: the attempt of the retry loop
    scored,           \* rerank: the (score, candidate) pairs so far
    selected,         \* the chunks rerank returned
    context_text,     \* retrieve_with_reranking's result: None or the context text,
    pages,            \*   the allowed pages
    media_files,      \*   and the allowed media
    json_output,      \* generate_structured_answer: the parsed model output
    result,           \* the validated AnswerResponse
    response,         \* what the caller gets: status, body, detail
    calls,            \* the calls made so far to the index and to the model providers
    rag_pc,           \* the stage SimpleRAG.answer is at
    rag_top_k,        \* SimpleRAG.top_k
    docs,             \* hybrid_search: the merged candidates, as indices into CHUNKS
    results,          \* SimpleRAG.retrieve: the candidates hybrid_search returned
    ranking,          \* the reranker's validated reply: (id, score) items
    final,            \* the chunks selected
    retrieved,        \* SimpleRAG.retrieve's return value: context, pages, images
    rag_out           \* what SimpleRAG.answer returns or raises

vars == <<gcall, pc, question, sanitized_query, faiss_results, rr_i, rr_attempt, scored,
          selected, context_text, pages, media_files, json_output, result, response, calls,
          rag_pc, rag_top_k, docs, results, ranking, final, retrieved, rag_out>>

pipeVars == <<pc, question, sanitized_query, faiss_results, rr_i, rr_attempt, scored,
              selected, context_text, pages, media_files, json_output, result, response,
              calls>>

ragVars == <<rag_pc, rag_top_k, docs, results, ranking, final, retrieved, rag_out>>

(***************************************************************************)
(* Python values and strings                                               *)
(***************************************************************************)
PyNone == [t |-> "None", v |-> <<>>]
PyInt(n) == [t |-> "int", v |-> <<n>>]
PyList(xs) == [t |-> "list", v |-> xs]
PyStr(s) == [t |-> "str", v |-> s]

\* bool(x) of a Python value
Truthy(x) ==
    CASE x.t = "None" -> FALSE
      [] x.t = "int" -> x.v[1] # 0
      [] OTHER -> Len(x.v) > 0

\* the outcome of a call: a returned value or a raised exception
Return(val) == [kind |-> "return", exc |-> "", msg |-> "", value |-> val]
Raise(e, m) == [kind |-> "raise", exc |-> e, msg |-> m, value |-> PyNone]
GuardrailViolation(m) == Raise("GuardrailViolation", m)

\* n copies of the character c
Rep(c, n) == [i \in 1..n |-> c]

\* str.isspace() of one character
IsSpace(c) == (c >= 9 /\ c <= 13) \/ (c >= 28 /\ c <= 32) \/ c = 133 \/ c = 160

\* the class [\x00-\x1f\x7f-\x9f]
IsControl(c) == (c >= 0 /\ c <= 31) \/ (c >= 127 /\ c <= 159)

\* str.lower() of one character
LowerCh(c) == IF (c >= 65 /\ c <= 90) \/ (c >= 192 /\ c <= 222 /\ c # 215) THEN c + 32 ELSE c

Lower(s) == CHOOSE low \in {SubSeq([i \in 1..Len(t) |-> LowerCh(t[i])], 1, Len(t)) : t \in {s}} : TRUE

\* str.strip(): from the first to the last character that is not whitespace
Strip(s) ==
    LET from == IF \E i \in 1..Len(s) : ~IsSpace(s[i])
                THEN CHOOSE i \in 1..Len(s) : ~IsSpace(s[i]) /\ \A j \in 1..(i - 1) : IsSpace(s[j])
                ELSE Len(s) + 1
        to == IF \E i \in 1..Len(s) : ~IsSpace(s[i])
              THEN CHOOSE i \in 1..Len(s) : ~IsSpace(s[i]) /\ \A j \in (i + 1)..Len(s) : IsSpace(s[j])
              ELSE Len(s)
    IN SubSeq(s, from, to)

\* the positions where a run of non-whitespace characters starts, and ends
WordStarts(s) == {i \in 1..Len(s) : ~IsSpace(s[i]) /\ (i = 1 \/ IsSpace(s[i - 1]))}

WordEnds(s) == {i \in 1..Len(s) : ~IsSpace(s[i]) /\ (i = Len(s) \/ IsSpace(s[i + 1]))}

\* the k-th smallest member of a set of numbers
Kth(S, k) == CHOOSE x \in S : Cardinality({y \in S : y <= x}) = k

\* str.split(): the maximal runs of non-whitespace characters, in order
Split(s) ==
    CHOOSE words \in UNION
        {{SubSeq([k \in 1..Cardinality(starts) |-> SubSeq(t, Kth(starts, k), Kth(ends, k))],
                 1, Cardinality(starts)) :
             <<starts, ends>> \in {<<WordStarts(t), WordEnds(t)>>}} : t \in {s}} : TRUE

\* sep.join(words)
RECURSIVE JoinFrom(_, _, _)
JoinFrom(sep, words, i) ==
    IF i > Len(words) THEN <<>>
    ELSE IF i = Len(words) THEN words[i]
    ELSE words[i] \o sep \o JoinFrom(sep, words, i + 1)

Join(sep, words) == JoinFrom(sep, words, 1)

\* s.startswith(p)
StartsWith(s, p) == Len(s) >= Len(p) /\ SubSeq(s, 1, Len(p)) = p

\* x in xs, for a list xs
InList(x, xs) == \E i \in 1..Len(xs) : xs[i] = x

(***************************************************************************)
(* Regular expressions of INJECTION_PATTERNS: a pattern is a sequence of   *)
(* items, matched with re.search (anywhere in the text).                   *)
(***************************************************************************)
Lit(s) == [k |-> "lit", s |-> s, alts |-> {}]
Opt(s) == [k |-> "opt", s |-> s, alts |-> {}]
Alt(ss) == [k |-> "alt", s |-> <<>>, alts |-> ss]
WsPlus == [k |-> "ws+", s |-> <<>>, alts |-> {}]
WsStar == [k |-> "ws*", s |-> <<>>, alts |-> {}]
DotStar == [k |-> "dot*", s |-> <<>>, alts |-> {}]

\* the literal w occurs in t at position j
LitAt(t, j, w) == j + Len(w) - 1 <= Len(t) /\ \A n \in 1..Len(w) : t[j + n - 1] = w[n]

\* items i.. of pattern p match t from position j on
RECURSIVE MatchAt(_, _, _, _)
MatchAt(p, i, t, j) ==
    IF i > Len(p) THEN TRUE
    ELSE LET it == p[i] IN
      CASE it.k = "lit" -> LitAt(t, j, it.s) /\ MatchAt(p, i + 1, t, j + Len(it.s))
        [] it.k = "opt" -> \/ MatchAt(p, i + 1, t, j)
                           \/ LitAt(t, j, it.s) /\ MatchAt(p, i + 1, t, j + Len(it.s))
        [] it.k = "alt" -> \E w \in it.alts :
                              LitAt(t, j, w) /\ MatchAt(p, i + 1, t, j + Len(w))
        [] it.k = "ws+" -> \E n \in 1..(Len(t) - j + 1) :
                              /\ \A m \in j..(j + n - 1) : IsSpace(t[m])
                              /\ MatchAt(p, i + 1, t, j + n)
        [] it.k = "ws*" -> \E n \in 0..(Len(t) - j + 1) :
                              /\ \A m \in j..(j + n - 1) : IsSpace(t[m])
                              /\ MatchAt(p, i + 1, t, j + n)
        [] it.k = "dot*" -> \E n \in 0..(Len(t) - j + 1) :
                              /\ \A m \in j..(j + n - 1) : t[m] # 10
                              /\ MatchAt(p, i + 1, t, j + n)

\* re.search(p, t)
Search(p, t) == \E j \in 1..(Len(t) + 1) : MatchAt(p, 1, t, j)

\* the words of the patterns, as code points
Words ==
    [ignore |-> <<105, 103, 110, 111, 114, 101>>,
     previous |-> <<112, 114, 101, 118, 105, 111, 117, 115>>,
     above |-> <<97, 98, 111, 118, 101>>,
     all |-> <<97, 108, 108>>,
     instruction |-> <<105, 110, 115, 116, 114, 117, 99, 116, 105, 111, 110>>,
     you |-> <<121, 111, 117>>,
     are |-> <<97, 114, 101>>,
     now |-> <<110, 111, 119>>,
     new |-> <<110, 101, 119>>,
     system |-> <<115, 121, 115, 116, 101, 109>>,
     script |-> <<115, 99, 114, 105, 112, 116>>,
     javascript |-> <<106, 97, 118, 97, 115, 99, 114, 105, 112, 116, 58>>,
     eval |-> <<101, 118, 97, 108>>,
     exec |-> <<101, 120, 101, 99>>,
     import |-> <<95, 95, 105, 109, 112, 111, 114, 116, 95, 95>>,
     forget |-> <<102, 111, 114, 103, 101, 116>>,
     everything |-> <<101, 118, 101, 114, 121, 116, 104, 105, 110, 103>>,
     disregard |-> <<100, 105, 115, 114, 101, 103, 97, 114, 100>>,
     override |-> <<111, 118, 101, 114, 114, 105, 100, 101>>,
     your |-> <<121, 111, 117, 114>>,
     role |-> <<114, 111, 108, 101>>,
     act |-> <<97, 99, 116>>,
     as |-> <<97, 115>>,
     if |-> <<105, 102>>]

INJECTION_PATTERNS == <<
    <<Lit(Words.ignore), WsPlus, DotStar, Alt({Words.previous, Words.above, Words.all}), DotStar,
      Lit(Words.instruction), Opt(<<115>>)>>,
    <<Lit(Words.you), WsPlus, Lit(Words.are), WsPlus, Lit(Words.now)>>,
    <<Lit(Words.new), WsPlus, Lit(Words.instruction), Opt(<<115>>)>>,
    <<Lit(Words.system), WsStar, Lit(<<58>>), WsStar, Lit(Words.you)>>,
    <<Lit(<<60>>), WsStar, Lit(Words.script), WsStar, Lit(<<62>>)>>,
    <<Lit(Words.javascript)>>,
    <<Lit(Words.eval), WsStar, Lit(<<40>>)>>,
    <<Lit(Words.exec), WsStar, Lit(<<40>>)>>,
    <<Lit(Words.import)>>,
    <<Lit(Words.forget), WsPlus, Alt({Words.everything, Words.all})>>,
    <<Lit(Words.disregard), WsPlus, Alt({Words.previous, Words.above})>>,
    <<Lit(Words.override), WsPlus, Lit(Words.your)>>,
    <<Lit(Words.new), WsPlus, Lit(Words.role)>>,
    <<Lit(Words.act), WsPlus, Lit(Words.as), WsPlus, Lit(Words.if)>> >>

(***************************************************************************)
(* Input guardrail                                                         *)
(***************************************************************************)
MIN_QUERY_LENGTH == 3
MAX_QUERY_LENGTH == 500

\* the positions where <[^>]+> matches: a "<" whose first later ">" is at
\* least two characters on
TagOpens(s) ==
    {i \in 1..Len(s) : /\ s[i] = 60
                       /\ i < Len(s)
                       /\ s[i + 1] # 62
                       /\ \E j \in (i + 2)..Len(s) : s[j] = 62}

\* where the match that starts at i ends: [^>]+ stops at the first ">"
TagClose(s, i) == CHOOSE j \in (i + 2)..Len(s) : s[j] = 62 /\ \A m \in (i + 1)..(j - 1) : s[m] # 62

\* re.sub(r"<[^>]+>", "", s): the characters of the leftmost non-overlapping
\* matches are dropped; a match that starts inside another ends with it
RemoveTags(s) ==
    LET opens == TagOpens(s)
        marked == [p \in 1..Len(s) |->
                     [c |-> s[p],
                      tag |-> \E i \in opens : i <= p /\ p <= TagClose(s, i)]]
        kept == SelectSeq(marked, LAMBDA m : ~m.tag)
    IN [i \in 1..Len(kept) |-> kept[i].c]

\* each step is computed once, from the value of the step before it
sanitize_input(query) ==
    CHOOSE q5 \in
        {Strip(q4) : q4 \in
            {SelectSeq(q3, LAMBDA c : c \notin {123, 125, 91, 93, 92}) : q3 \in
                {RemoveTags(q2) : q2 \in
                    {SelectSeq(q1, LAMBDA c : ~IsControl(c)) : q1 \in
                        {Join(<<32>>, Split(q0)) : q0 \in {query}}}}}} : TRUE

\* some pattern of INJECTION_PATTERNS is found in the lower-cased query
InjectionFound(query) ==
    \E n \in 1..Len(INJECTION_PATTERNS) : Search(INJECTION_PATTERNS[n], Lower(query))

\* check_input_safety measuring the query as given, not trimmed
check_input_safety_untrimmed(query) ==
    IF Len(query) < 3
    THEN GuardrailViolation("Query too short (min 3 chars)")
    ELSE IF Len(query) > 500
    THEN GuardrailViolation("Query too long (max 500 chars)")
    ELSE IF InjectionFound(query)
    THEN GuardrailViolation("Query contains suspicious patterns and was blocked for security")
    ELSE Return(PyNone)

\* the raised violation, or a return of None
check_input_safety(query) ==
    LET length == Len(Strip(query))
    IN IF length < MIN_QUERY_LENGTH
       THEN GuardrailViolation("Query too short (min 3 chars)")
       ELSE IF length > MAX_QUERY_LENGTH
       THEN GuardrailViolation("Query too long (max 500 chars)")
       ELSE IF InjectionFound(query)
       THEN GuardrailViolation("Query contains suspicious patterns and was blocked for security")
       ELSE Return(PyNone)

validate_input(query) ==
    IF ~Truthy(query) \/ query.t # "str"
    THEN GuardrailViolation("Query must be a non-empty string")
    ELSE LET safety == check_input_safety(query.v)
         IN IF safety.kind = "raise" THEN safety
            ELSE Return(PyStr(sanitize_input(query.v)))

(***************************************************************************)
(* Output guardrail.  A dict is a function from its keys; a list of        *)
(* strings is a sequence of strings.                                       *)
(***************************************************************************)
MAX_ANSWER_LENGTH == 2000
MAX_STEPS == 10
MAX_LINKS == 10
MAX_MEDIA == 5
MIN_TITLE_LENGTH == 5
MIN_SUMMARY_LENGTH == 10

EmptyDict == <<>>

\* d.get(key, default)
Get(d, key, default) == IF key \in DOMAIN d THEN d[key] ELSE default

\* the first key of keys that d lacks, 0 if none
FirstMissing(d, keys) ==
    IF \A n \in 1..Len(keys) : keys[n] \in DOMAIN d THEN 0
    ELSE CHOOSE n \in 1..Len(keys) :
            keys[n] \notin DOMAIN d /\ \A m \in 1..(n - 1) : keys[m] \in DOMAIN d

required_keys == <<"mode", "answer", "links", "media">>
required_answer_keys == <<"title", "summary", "steps", "verification">>

\* answer.get("title", "").strip()
TitleOf(answer) == Strip(Get(answer, "title", <<>>))

\* answer.get("summary", "").strip(), without the trimming
SummaryOf_untrimmed(answer) == Get(answer, "summary", <<>>)

\* answer.get("summary", "").strip()
SummaryOf(answer) == Strip(Get(answer, "summary", <<>>))

check_output_structure(answer_dict) ==
    IF FirstMissing(answer_dict, required_keys) # 0
    THEN GuardrailViolation("Missing required field: "
                            \o required_keys[FirstMissing(answer_dict, required_keys)])
    ELSE LET answer == Get(answer_dict, "answer", EmptyDict) IN
      IF FirstMissing(answer, required_answer_keys) # 0
      THEN GuardrailViolation("Missing required answer field: "
                              \o required_answer_keys[FirstMissing(answer, required_answer_keys)])
      ELSE LET title == TitleOf(answer)
               summary == SummaryOf(answer)
               steps == Get(answer, "steps", <<>>)
           IN IF Len(title) = 0 \/ Len(title) < MIN_TITLE_LENGTH
              THEN GuardrailViolation("Title too short or empty")
              ELSE IF Len(summary) = 0 \/ Len(summary) < MIN_SUMMARY_LENGTH
              THEN GuardrailViolation("Summary too short or empty")
              ELSE IF Len(summary) > MAX_ANSWER_LENGTH
              THEN GuardrailViolation("Answer too long (max 2000 chars)")
              ELSE IF Len(steps) > MAX_STEPS
              THEN GuardrailViolation("Too many steps (max 10)")
              ELSE Return(PyNone)

\* "/media/"
MEDIA_PREFIX == <<47, 109, 101, 100, 105, 97, 47>>
\* "Diagram "
DIAGRAM_PREFIX == <<68, 105, 97, 103, 114, 97, 109, 32>>

\* the link loop's tests of one link: TRUE when it raises
LinkFormatBad(link) == ~StartsWith(link, MEDIA_PREFIX)

\* the test of the allowed pages, made in lenient mode too
LinkRefBad_lenient_too(link, allowed_pages, strict) == ~InList(link, allowed_pages)

LinkRefBad(link, allowed_pages, strict) == strict /\ ~InList(link, allowed_pages)

\* the media loop's tests of one image
ImgFormatBad(img) == ~(StartsWith(img, MEDIA_PREFIX) \/ StartsWith(img, DIAGRAM_PREFIX))

ImgRefBad(img, allowed_media, strict) ==
    strict /\ ~StartsWith(img, DIAGRAM_PREFIX) /\ ~InList(img, allowed_media)

check_output_references(answer_dict, allowed_pages, allowed_media, strict) ==
    LET links == Get(answer_dict, "links", <<>>)
        media_images == Get(Get(answer_dict, "media", EmptyDict), "images", <<>>)
        badLink == {n \in 1..Len(links) :
                       LinkFormatBad(links[n]) \/ LinkRefBad(links[n], allowed_pages, strict)}
        badImg == {n \in 1..Len(media_images) :
                      ImgFormatBad(media_images[n])
                      \/ ImgRefBad(media_images[n], allowed_media, strict)}
        firstLink == CHOOSE n \in badLink : \A m \in badLink : n <= m
        firstImg == CHOOSE n \in badImg : \A m \in badImg : n <= m
    IN IF Len(links) > MAX_LINKS
       THEN GuardrailViolation("Too many links (max 10)")
       ELSE IF badLink # {}
       THEN IF LinkFormatBad(links[firstLink])
            THEN GuardrailViolation("Invalid link format")
            ELSE GuardrailViolation("Invalid page reference")
       ELSE IF Len(media_images) > MAX_MEDIA
       THEN GuardrailViolation("Too many media files (max 5)")
       ELSE IF badImg # {}
       THEN IF ImgFormatBad(media_images[firstImg])
            THEN GuardrailViolation("Invalid media format")
            ELSE GuardrailViolation("Invalid media reference")
       ELSE Return(PyNone)

validate_output(answer_dict, allowed_pages, allowed_media, strict) ==
    LET structure == check_output_structure(answer_dict)
    IN IF structure.kind = "raise" THEN structure
       ELSE check_output_references(answer_dict, allowed_pages, allowed_media, strict)

(***************************************************************************)
(* Context guardrail                                                       *)
(***************************************************************************)
MIN_CONTEXT_LENGTH == 50
MAX_CONTEXT_LENGTH == 50000

\* check_context with a short context rejected, not only logged
check_context_short_fatal(context) ==
    IF ~Truthy(context)
    THEN GuardrailViolation("Context is empty")
    ELSE IF Len(context.v) < 50
    THEN GuardrailViolation("Context too short")
    ELSE IF Len(context.v) > 50000
    THEN GuardrailViolation("Context too long (max 50000 chars)")
    ELSE Return(PyNone)

check_context(context) ==
    IF ~Truthy(context)
    THEN GuardrailViolation("Context is empty")
    ELSE IF Len(context.v) > MAX_CONTEXT_LENGTH
    THEN GuardrailViolation("Context too long (max 50000 chars)")
    ELSE Return(PyNone)

\* logger.warning("Context very short") is emitted
check_context_warns(context) == Truthy(context) /\ Len(context.v) < MIN_CONTEXT_LENGTH

\* no return statement: the value of an accepted call is None
validate_context(context) == check_context(context)

(***************************************************************************)
(* src/utils.py                                                            *)
(***************************************************************************)
\* the elements of a list, as a set
Elems(xs) == UNION {{ys[n] : n \in 1..Len(ys)} : ys \in {xs}}

\* context_is_relevant with len(overlap) >= 0 for len(overlap) > 0
context_is_relevant_nonneg(query, ctx) ==
    \E q_words \in {Elems(words) : words \in {Split(q) : q \in {Lower(query)}}},
       c_words \in {Elems(words) : words \in {Split(c) : c \in {Lower(ctx)}}} :
        Cardinality(q_words \cap c_words) >= 0

context_is_relevant(query, ctx) ==
    \E q_words \in {Elems(words) : words \in {Split(q) : q \in {Lower(query)}}},
       c_words \in {Elems(words) : words \in {Split(c) : c \in {Lower(ctx)}}} :
        Cardinality(q_words \cap c_words) > 0

(***************************************************************************)
(* The chunk store and the retriever (src/retriever.py)                    *)
(***************************************************************************)
TOP_K == 5
CANDIDATE_K == 20
API_MAX_RETRIES == 2

\* str(n) for n >= 0
RECURSIVE IntToStr(_)
IntToStr(n) == IF n < 10 THEN <<48 + n>> ELSE Append(IntToStr(n \div 10), 48 + (n % 10))

\* get_page_image_path's return value: "/media/page_<n>.png"
PagePath(n) == MEDIA_PREFIX \o <<112, 97, 103, 101, 95>> \o IntToStr(n) \o <<46, 112, 110, 103>>

\* The metadata the index was built with: two chunks of page 5, two of page 9.
\*   1: "fire door Diagram 1.1"   2: "exit sign Diagram 2.1"   3: "alarm"
\*   4: "fire " and MAX_CONTEXT_LENGTH times "a"
CHUNKS == <<
    [page |-> 5,
     text |-> <<102, 105, 114, 101, 32, 100, 111, 111, 114, 32>> \o DIAGRAM_PREFIX \o <<49, 46, 49>>,
     media |-> <<PagePath(5)>>,
     diagram_ids |-> <<DIAGRAM_PREFIX \o <<49, 46, 49>>>>],
    [page |-> 5,
     text |-> <<101, 120, 105, 116, 32, 115, 105, 103, 110, 32>> \o DIAGRAM_PREFIX \o <<50, 46, 49>>,
     media |-> <<PagePath(5)>>,
     diagram_ids |-> <<DIAGRAM_PREFIX \o <<50, 46, 49>>>>],
    [page |-> 9,
     text |-> <<97, 108, 97, 114, 109>>,
     media |-> <<PagePath(9)>>,
     diagram_ids |-> <<>>],
    [page |-> 9,
     text |-> <<102, 105, 114, 101, 32>> \o Rep(97, MAX_CONTEXT_LENGTH),
     media |-> <<PagePath(9)>>,
     diagram_ids |-> <<>>] >>

\* a < b for strings, as Python compares them
LexLess(a, b) ==
    \E k \in 1..(Len(a) + 1) :
        /\ \A m \in 1..(k - 1) : m <= Len(b) /\ a[m] = b[m]
        /\ \/ k = Len(a) + 1 /\ Len(b) >= k
           \/ k <= Len(a) /\ k <= Len(b) /\ a[k] < b[k]

\* sorted(S) for a set S of strings
RECURSIVE SortedSet(_)
SortedSet(S) ==
    IF S = {} THEN <<>>
    ELSE LET least == CHOOSE x \in S : \A y \in S \ {x} : LexLess(x, y)
         IN <<least>> \o SortedSet(S \ {least})

\* scored.sort(key=lambda x: x[0], reverse=True): stable, highest score first
RECURSIVE SortByScore(_)
SortByScore(pairs) ==
    IF Len(pairs) <= 1 THEN pairs
    ELSE LET rest == SortByScore(SubSeq(pairs, 1, Len(pairs) - 1))
             last == pairs[Len(pairs)]
             \* last goes after every pair whose score is not lower
             before == Cardinality({n \in 1..Len(rest) : rest[n].score >= last.score})
         IN SubSeq(rest, 1, before) \o <<last>> \o SubSeq(rest, before + 1, Len(rest))

\* wait_time = 2**attempt, with twice the attempt in its place
wait_time_twice(attempt) == 2 * attempt

\* wait_time = 2**attempt, the seconds slept after a failed attempt
wait_time(attempt) == 2 ^ attempt

\* xs[:n]
Take(xs, n) == SubSeq(xs, 1, IF n < Len(xs) THEN n ELSE Len(xs))

\* rerank's return value, from the scores of all candidates
rerank(pairs, top_k) ==
    LET top == Take(SortByScore(pairs), top_k)
    IN [n \in 1..Len(top) |-> top[n].idx]

\* "\n\n---\n\n".join(f"[Page {r['page']}]\n{r['text']}" for r in reranked)
ContextText(reranked) ==
    Join(<<10, 10, 45, 45, 45, 10, 10>>,
         [n \in 1..Len(reranked) |->
            <<91, 80, 97, 103, 101, 32>> \o IntToStr(CHUNKS[reranked[n]].page) \o <<93, 10>>
            \o CHUNKS[reranked[n]].text])

\* sorted({m for r in reranked for m in r["diagram_ids"]})
MediaFilesOf(reranked) ==
    SortedSet(UNION {Elems(CHUNKS[reranked[n]].diagram_ids) : n \in 1..Len(reranked)})

\* sorted({m for r in reranked for m in r["media"]})
PagesOf(reranked) ==
    SortedSet(UNION {Elems(CHUNKS[reranked[n]].media) : n \in 1..Len(reranked)})

(***************************************************************************)
(* The answer generator (src/generator.py) and the response model          *)
(***************************************************************************)
\* AnswerResponse(**json_output): the required fields, the defaults of the others
AnswerResponse(obj) ==
    IF /\ {"answer", "links", "media"} \subseteq DOMAIN obj
       /\ {"title", "summary", "steps", "verification"} \subseteq DOMAIN obj.answer
       /\ "images" \in DOMAIN obj.media
    THEN Return([mode |-> Get(obj, "mode", <<97, 110, 115, 119, 101, 114>>),
                 answer |-> [title |-> obj.answer.title, summary |-> obj.answer.summary,
                             steps |-> obj.answer.steps,
                             verification |-> obj.answer.verification],
                 links |-> obj.links,
                 media |-> [images |-> obj.media.images],
                 latency_ms |-> Get(obj, "latency_ms", 0)])
    ELSE Raise("Exception", "Invalid answer structure")

\* json.loads(raw_output), then the text from the first { to the last }
ParseOutput(raw) ==
    IF raw.kind \in {"json", "wrapped"} THEN Return(raw.obj)
    ELSE Raise("Exception", "Failed to parse LLM output as JSON")

\* generate_structured_answer after the provider returned raw
GenerateFrom(raw) ==
    LET parsed == ParseOutput(raw)
    IN IF parsed.kind = "raise" THEN parsed ELSE AnswerResponse(parsed.value)

(***************************************************************************)
(* api.py: the response of answer_endpoint                                 *)
(***************************************************************************)
NoResponse == [status |-> 0, body |-> EmptyDict, detail |-> ""]

\* Nothing called yet.  search: what embedding_manager.search did; load: the
\* times the index and its metadata were read from disk; rerank: the
\* reranking calls made, retries not counted; slept: the seconds slept so far
\* in the retry loop of the candidate being scored; exhausted: some reranking
\* call failed on every attempt; generate, generate_failed: the
\* text-generation calls made, and how many of them raised
NoCalls ==
    [search |-> "none", load |-> 0, rerank |-> 0, slept |-> 0, exhausted |-> FALSE,
     generate |-> 0, generate_failed |-> 0]
HttpError(code, detail) == [status |-> code, body |-> EmptyDict, detail |-> detail]
Ok(body) == [status |-> 200, body |-> body, detail |-> ""]

\* "No Information Found"
NO_INFO_TITLE ==
    <<78, 111, 32, 73, 110, 102, 111, 114, 109, 97, 116, 105, 111, 110, 32, 70, 111, 117,
      110, 100>>

\* the answer returned when the retriever found no relevant context
NoContextAnswer(total_latency) ==
    [mode |-> <<97, 110, 115, 119, 101, 114>>,
     answer |->
        [title |-> NO_INFO_TITLE,
         \* "No relevant information found in the document for your query."
         summary |-> <<78, 111, 32, 114, 101, 108, 101, 118, 97, 110, 116, 32, 105, 110, 102,
                       111, 114, 109, 97, 116, 105, 111, 110, 32, 102, 111, 117, 110, 100, 32,
                       105, 110, 32, 116, 104, 101, 32, 100, 111, 99, 117, 109, 101, 110, 116,
                       32, 102, 111, 114, 32, 121, 111, 117, 114, 32, 113, 117, 101, 114, 121,
                       46>>,
         \* "Try rephrasing your question", "Use different keywords"
         steps |-> << <<84, 114, 121, 32, 114, 101, 112, 104, 114, 97, 115, 105, 110, 103, 32,
                        121, 111, 117, 114, 32, 113, 117, 101, 115, 116, 105, 111, 110>>,
                      <<85, 115, 101, 32, 100, 105, 102, 102, 101, 114, 101, 110, 116, 32, 107,
                        101, 121, 119, 111, 114, 100, 115>> >>,
         \* "Retrieved content was not relevant to the query"
         verification |-> << <<82, 101, 116, 114, 105, 101, 118, 101, 100, 32, 99, 111, 110,
                               116, 101, 110, 116, 32, 119, 97, 115, 32, 110, 111, 116, 32, 114,
                               101, 108, 101, 118, 97, 110, 116, 32, 116, 111, 32, 116, 104, 101,
                               32, 113, 117, 101, 114, 121>> >>],
     links |-> <<>>,
     media |-> [images |-> <<>>],
     latency_ms |-> total_latency]

\* SimpleRAG.answer has not been called
NoOutcome == [kind |-> "none", exc |-> "", msg |-> "", value |-> PyNone]

\* SimpleRAG.retrieve has not returned
NothingRetrieved == [context |-> <<>>, pages |-> <<>>, images |-> <<>>]

RagIdle ==
    /\ rag_pc = "idle"
    /\ rag_top_k = TOP_K
    /\ docs = <<>>
    /\ results = <<>>
    /\ ranking = <<>>
    /\ final = <<>>
    /\ retrieved = NothingRetrieved
    /\ rag_out = NoOutcome

(***************************************************************************)
(* The arguments the guardrail functions are called with                   *)
(***************************************************************************)
MaxQueryChars == 5

\* a, space, NUL, <, >
QueryAlphabet == {97, 32, 0, 60, 62}

\* a, tab, newline, {, backslash
SpecialAlphabet == {97, 9, 10, 123, 92}

RECURSIVE StringsUpTo(_, _)
StringsUpTo(alphabet, n) ==
    IF n = 0 THEN {<<>>}
    ELSE LET shorter == StringsUpTo(alphabet, n - 1)
         IN shorter \cup {Append(s, c) : s \in {t \in shorter : Len(t) = n - 1}, c \in alphabet}

ShortQueries ==
    StringsUpTo(QueryAlphabet, MaxQueryChars)
    \cup StringsUpTo(SpecialAlphabet, MaxQueryChars - 2)

\* "ignore previous instruction", "Eval (", "you are  now", "ignore this",
\* and with removed text inside a pattern: "eval{(", "ign<i>ore all instruction"
InjectionQueries ==
    {Words.ignore \o <<32>> \o Words.previous \o <<32>> \o Words.instruction,
     <<69>> \o <<118, 97, 108>> \o <<32, 40>>,
     Words.you \o <<32>> \o Words.are \o <<32, 32>> \o Words.now,
     Words.ignore \o <<32, 116, 104, 105, 115>>,
     Words.eval \o <<123, 40>>,
     <<105, 103, 110, 60, 105, 62, 111, 114, 101, 32>> \o Words.all \o <<32>> \o Words.instruction}

\* queries around MAX_QUERY_LENGTH, with and without surrounding whitespace
LongQueries ==
    {pre \o Rep(65, n) \o post :
        n \in (MAX_QUERY_LENGTH - 1)..(MAX_QUERY_LENGTH + 1),
        pre \in {<<>>, <<32>>, <<60, 98, 62>>},
        post \in {<<>>, <<32, 32>>, <<32, 97>>}}

QueryInputs ==
    {PyNone, PyInt(0), PyInt(7), PyList(<<>>), PyList(<<97>>)}
    \cup {PyStr(s) : s \in ShortQueries \cup LongQueries \cup InjectionQueries}

\* answers for validate_output: titles and summaries around their limits
TitleInputs ==
    {<<>>, <<84, 101, 115, 116>>, <<84, 105, 116, 108, 101>>, <<72, 105, 32, 32, 32>>,
     <<32, 32>> \o <<84, 105, 116, 108, 101>> \o <<32>>}

SummaryInputs ==
    {pre \o Rep(65, n) \o post :
        n \in {0, MIN_SUMMARY_LENGTH - 1, MIN_SUMMARY_LENGTH,
               MAX_ANSWER_LENGTH, MAX_ANSWER_LENGTH + 1},
        pre \in {<<>>, <<32>>}, post \in {<<>>, <<32>>}}

StepsInputs == {Rep(<<83>>, n) : n \in {0, MAX_STEPS, MAX_STEPS + 1}}

\* "/media/p5", "/media/p9", "p5"
LinkPool == {MEDIA_PREFIX \o <<112, 53>>, MEDIA_PREFIX \o <<112, 57>>, <<112, 53>>}

\* "/media/i1", "/media/i2", "i1", "Diagram D6"
ImagePool == {MEDIA_PREFIX \o <<105, 49>>, MEDIA_PREFIX \o <<105, 50>>, <<105, 49>>,
              DIAGRAM_PREFIX \o <<68, 54>>}

MaxRefs == 2

LinksInputs ==
    StringsUpTo(LinkPool, MaxRefs)
    \cup {Rep(MEDIA_PREFIX \o <<112, 53>>, n) : n \in {MAX_LINKS, MAX_LINKS + 1}}

ImagesInputs ==
    StringsUpTo(ImagePool, MaxRefs)
    \cup {Rep(MEDIA_PREFIX \o <<105, 49>>, n) : n \in {MAX_MEDIA, MAX_MEDIA + 1}}

AllowedPagesInputs == {<<>>, <<MEDIA_PREFIX \o <<112, 53>>>>}

AllowedMediaInputs == {<<>>, <<MEDIA_PREFIX \o <<105, 49>>>>, <<DIAGRAM_PREFIX \o <<68, 54>>>>}

\* d without the keys of drop
Without(d, drop) == [k \in DOMAIN d \ drop |-> d[k]]

AnswerDict(title, summary, steps, links, images, dropTop, dropAnswer, dropMedia) ==
    Without([mode |-> <<97, 110, 115, 119, 101, 114>>,
             answer |-> Without([title |-> title, summary |-> summary, steps |-> steps,
                                 verification |-> <<<<86>>>>], dropAnswer),
             links |-> links,
             media |-> Without([images |-> images], dropMedia)], dropTop)

DropInputs ==
    {<<{}, {}>>}
    \cup {<<{k}, {}>> : k \in {"mode", "answer", "links", "media"}}
    \cup {<<{}, {k}>> : k \in {"title", "summary", "steps", "verification"}}
    \cup {<<{"mode", "links"}, {"title"}>>}

\* the structure varies, the references are fixed
StructureInputs ==
    {AnswerDict(title, summary, steps, <<MEDIA_PREFIX \o <<112, 53>>>>, <<>>,
                drop[1], drop[2], {}) :
        title \in TitleInputs, summary \in SummaryInputs, steps \in StepsInputs,
        drop \in DropInputs}

\* the references vary, the structure is valid
ReferenceInputs ==
    {AnswerDict(<<84, 105, 116, 108, 101>>, Rep(65, MIN_SUMMARY_LENGTH), <<>>, links, images,
                {}, {}, {}) :
        links \in LinksInputs, images \in ImagesInputs}
    \cup {AnswerDict(<<84, 105, 116, 108, 101>>, Rep(65, MIN_SUMMARY_LENGTH), <<>>, links, <<>>,
                     {}, {}, {"images"}) : links \in LinksInputs}

\* contexts around MIN_CONTEXT_LENGTH and MAX_CONTEXT_LENGTH; 60 62 is markup
ContextInputs ==
    {PyNone}
    \cup {PyStr(pre \o Rep(c, n)) :
            n \in {0, 1, MIN_CONTEXT_LENGTH - 1, MIN_CONTEXT_LENGTH,
                   MAX_CONTEXT_LENGTH - 1, MAX_CONTEXT_LENGTH, MAX_CONTEXT_LENGTH + 1},
            c \in {97, 32},
            pre \in {<<>>, <<65>>, <<60, 98, 62>>}}

\* warned: the call logged a warning
NoCall == [fn |-> "none", args |-> <<>>, result |-> Return(PyNone), warned |-> FALSE]


(***************************************************************************)
(* One request to POST /chat/answer.  What the embedding search, the two   *)
(* text-generation calls and the clock return is chosen from bounded sets. *)
(***************************************************************************)
\* "fire door", "banana", "Hi", "<abc>", "Fire <b> door"
Questions ==
    {<<102, 105, 114, 101, 32, 100, 111, 111, 114>>,
     <<98, 97, 110, 97, 110, 97>>,
     <<72, 105>>,
     <<60, 97, 98, 99, 62>>,
     <<70, 105, 114, 101, 32, 60, 98, 62, 32, 100, 111, 111, 114>>}

MaxCandidates == 3

\* distinct chunks among the first three, best first
ShortCandidateLists ==
    {c \in StringsUpTo(1..3, MaxCandidates) : \A m, n \in 1..Len(c) : m # n => c[m] # c[n]}

\* what the index can return; the long chunk 4 comes alone or with one other chunk
CandidateLists == ShortCandidateLists \cup {<<4>>, <<4, 2>>, <<1, 4>>}

MaxScore == 1

\* the reranking model's reply: a number, or text float() rejects
RerankReplies ==
    {[parsable |-> TRUE, score |-> x] : x \in 0..MaxScore}
    \cup {[parsable |-> FALSE, score |-> 0]}

MaxLatency == 1

\* "Title", "Test"
LlmTitles == {<<84, 105, 116, 108, 101>>, <<84, 101, 115, 116>>}

\* "Doors must close.", "Based on General Knowledge"
LlmSummaries ==
    {<<68, 111, 111, 114, 115, 32, 109, 117, 115, 116, 32, 99, 108, 111, 115, 101, 46>>,
     <<66, 97, 115, 101, 100, 32, 111, 110, 32, 71, 101, 110, 101, 114, 97, 108, 32, 75, 110,
       111, 119, 108, 101, 100, 103, 101>>}

\* page 5 is in the store, page 999 is not; "page_5" lacks the prefix
LlmLinks ==
    {<<>>, <<PagePath(5)>>, <<PagePath(999)>>, <<PagePath(5), PagePath(999)>>,
     <<<<112, 97, 103, 101, 95, 53>>>>}

\* "Diagram 1.1", "Diagram 9.9", "/media/fake.png", "fig"
LlmImages ==
    {<<>>, <<DIAGRAM_PREFIX \o <<49, 46, 49>>>>, <<DIAGRAM_PREFIX \o <<57, 46, 57>>>>,
     <<MEDIA_PREFIX \o <<102, 97, 107, 101, 46, 112, 110, 103>>>>, <<<<102, 105, 103>>>>}

\* d with key latency_ms set
WithLatency(d, ms) == [k \in DOMAIN d \cup {"latency_ms"} |-> IF k = "latency_ms" THEN ms ELSE d[k]]

\* the links vary with no image, and the images with the one link of page 5
LlmReferences ==
    {<<l, <<>>>> : l \in LlmLinks} \cup {<<<<PagePath(5)>>, i>> : i \in LlmImages}

\* a complete answer that cites page 5 and "Diagram 1.1"
LlmBaseDict ==
    AnswerDict(<<84, 105, 116, 108, 101>>,
               <<68, 111, 111, 114, 115, 32, 109, 117, 115, 116, 32, 99, 108, 111, 115, 101, 46>>,
               <<<<83>>>>, <<PagePath(5)>>, <<DIAGRAM_PREFIX \o <<49, 46, 49>>>>, {}, {}, {})

\* complete answers, and the base answer without mode, with the mode "chat",
\* without links, with a latency
LlmDicts ==
    {AnswerDict(t, su, <<<<83>>>>, r[1], r[2], {}, {}, {}) :
        t \in LlmTitles, su \in LlmSummaries, r \in LlmReferences}
    \cup {Without(LlmBaseDict, {"mode"}), [LlmBaseDict EXCEPT !["mode"] = <<99, 104, 97, 116>>],
          Without(LlmBaseDict, {"links"}), WithLatency(LlmBaseDict, 99)}

\* the answering model's reply: JSON, JSON inside prose, or no JSON at all
LlmRawOutputs ==
    {[kind |-> "garbage", obj |-> EmptyDict], [kind |-> "wrapped", obj |-> LlmBaseDict]}
    \cup {[kind |-> "json", obj |-> d] : d \in LlmDicts}

Init ==
    /\ gcall = NoCall
    /\ pc = "validate_input"
    /\ question \in Questions
    /\ sanitized_query = <<>>
    /\ faiss_results = <<>>
    /\ rr_i = 0
    /\ rr_attempt = 0
    /\ scored = <<>>
    /\ selected = <<>>
    /\ context_text = PyNone
    /\ pages = <<>>
    /\ media_files = <<>>
    /\ json_output = EmptyDict
    /\ result = EmptyDict
    /\ response = NoResponse
    /\ calls = NoCalls
    /\ RagIdle

\* api.py: GUARDRAIL 1
ValidateInputStep ==
    /\ pc = "validate_input"
    /\ LET checked == validate_input(PyStr(question))
       IN IF checked.kind = "raise"
          THEN /\ response' = HttpError(400, checked.msg)
               /\ pc' = "done"
               /\ UNCHANGED sanitized_query
          ELSE /\ sanitized_query' = checked.value.v
               /\ pc' = "search"
               /\ UNCHANGED response
    /\ UNCHANGED ragVars
    /\ UNCHANGED <<gcall, calls, question, faiss_results, rr_i, rr_attempt, scored, selected,
                   context_text, pages, media_files, json_output, result>>

\* embedding_manager.search raises: an empty query, before the index is loaded, or the
\* loading, the embedding provider or the index search fails
SearchFails ==
    /\ pc = "search"
    /\ response' = HttpError(500, "Failed to retrieve context")
    /\ calls' = [calls EXCEPT !.search = "failed",
                              !.load = IF Len(Strip(sanitized_query)) = 0 THEN @ ELSE @ + 1]
    /\ pc' = "done"
    /\ UNCHANGED ragVars
    /\ UNCHANGED <<gcall, question, sanitized_query, faiss_results, rr_i, rr_attempt, scored,
                   selected, context_text, pages, media_files, json_output, result>>

\* embedding_manager.search loads the index and its metadata and returns candidates;
\* none at all ends the retrieval with None
SearchReturns ==
    /\ pc = "search"
    /\ Len(sanitized_query) > 0 /\ Len(Strip(sanitized_query)) > 0
    /\ \E found \in CandidateLists :
          /\ Len(found) <= CANDIDATE_K
          /\ calls' = [calls EXCEPT !.search = IF Len(found) = 0 THEN "empty" ELSE "some",
                                    !.load = @ + 1]
          /\ IF Len(found) = 0
             THEN /\ context_text' = PyNone
                  /\ pc' = "retrieved"
                  /\ UNCHANGED <<faiss_results, rr_i, rr_attempt, scored>>
             ELSE /\ faiss_results' = found
                  /\ rr_i' = 1
                  /\ rr_attempt' = 0
                  /\ scored' = <<>>
                  /\ pc' = "rerank"
                  /\ UNCHANGED context_text
    /\ UNCHANGED ragVars
    /\ UNCHANGED <<gcall, question, sanitized_query, selected, pages, media_files,
                   json_output, result, response>>

\* rerank: the call for candidate rr_i raises; retried after 2^attempt seconds, and after
\* the last attempt the candidate keeps the score 0.0
RerankCallFails ==
    /\ pc = "rerank"
    /\ rr_i <= Len(faiss_results)
    /\ IF rr_attempt < API_MAX_RETRIES
       THEN /\ rr_attempt' = rr_attempt + 1
            /\ calls' = [calls EXCEPT !.rerank = IF rr_attempt = 0 THEN @ + 1 ELSE @,
                                      !.slept = @ + wait_time(rr_attempt)]
            /\ UNCHANGED <<rr_i, scored>>
       ELSE /\ scored' = Append(scored, [score |-> 0, idx |-> faiss_results[rr_i]])
            /\ rr_i' = rr_i + 1
            /\ rr_attempt' = 0
            /\ calls' = [calls EXCEPT !.rerank = IF rr_attempt = 0 THEN @ + 1 ELSE @,
                                      !.slept = 0,
                                      !.exhausted = TRUE]
    /\ UNCHANGED ragVars
    /\ UNCHANGED <<gcall, pc, question, sanitized_query, faiss_results, selected, context_text,
                   pages, media_files, json_output, result, response>>

\* rerank: the call for candidate rr_i returns; a reply float() rejects scores 0.0
RerankCallReturns ==
    /\ pc = "rerank"
    /\ rr_i <= Len(faiss_results)
    /\ \E reply \in RerankReplies :
          scored' = Append(scored, [score |-> IF reply.parsable THEN reply.score ELSE 0,
                                    idx |-> faiss_results[rr_i]])
    /\ rr_i' = rr_i + 1
    /\ rr_attempt' = 0
    /\ calls' = [calls EXCEPT !.rerank = IF rr_attempt = 0 THEN @ + 1 ELSE @, !.slept = 0]
    /\ UNCHANGED ragVars
    /\ UNCHANGED <<gcall, pc, question, sanitized_query, faiss_results, selected, context_text,
                   pages, media_files, json_output, result, response>>

\* rerank sorts and truncates; retrieve_with_reranking builds the context and the allowed
\* references and returns them, or None when the context shares no word with the query
BuildContext ==
    /\ pc = "rerank"
    /\ rr_i > Len(faiss_results)
    /\ \E reranked \in {rerank(scored, TOP_K)} :
       \E text \in {ContextText(reranked)} :
          /\ selected' = reranked
          /\ IF Len(reranked) = 0 \/ ~context_is_relevant(sanitized_query, text)
             THEN /\ context_text' = PyNone
                  /\ UNCHANGED <<pages, media_files>>
             ELSE /\ context_text' = PyStr(text)
                  /\ pages' = PagesOf(reranked)
                  /\ media_files' = MediaFilesOf(reranked)
    /\ faiss_results' = <<>>
    /\ rr_i' = 0
    /\ rr_attempt' = 0
    /\ scored' = <<>>
    /\ pc' = "retrieved"
    /\ UNCHANGED ragVars
    /\ UNCHANGED <<gcall, calls, question, sanitized_query, json_output, result, response>>

\* api.py: context is None
RespondNoContext ==
    /\ pc = "retrieved"
    /\ context_text = PyNone
    /\ \E total_latency \in 0..MaxLatency : response' = Ok(NoContextAnswer(total_latency))
    /\ pc' = "done"
    /\ UNCHANGED ragVars
    /\ UNCHANGED <<gcall, calls, question, sanitized_query, faiss_results, rr_i, rr_attempt, scored,
                   selected, context_text, pages, media_files, json_output, result>>

\* api.py: GUARDRAIL 2, whose violation is logged and not raised
ValidateContextStep ==
    /\ pc = "retrieved"
    /\ context_text # PyNone
    /\ validate_context(context_text).kind \in {"return", "raise"}
    /\ pc' = "generate"
    /\ UNCHANGED ragVars
    /\ UNCHANGED <<gcall, calls, question, sanitized_query, faiss_results, rr_i, rr_attempt, scored,
                   selected, context_text, pages, media_files, json_output, result, response>>

\* generate_structured_answer raises before it has a reply: the provider call fails
GenerateCallFails ==
    /\ pc = "generate"
    /\ calls' = [calls EXCEPT !.generate = @ + 1, !.generate_failed = @ + 1]
    /\ response' = HttpError(500, "Failed to generate answer")
    /\ pc' = "done"
    /\ UNCHANGED ragVars
    /\ UNCHANGED <<gcall, question, sanitized_query, faiss_results, rr_i, rr_attempt, scored,
                   selected, context_text, pages, media_files, json_output, result>>

\* generate_structured_answer gets a reply, parses it and validates it as AnswerResponse
GenerateCallReturns ==
    /\ pc = "generate"
    /\ Len(Strip(sanitized_query)) > 0
    /\ Truthy(context_text) /\ Len(Strip(context_text.v)) > 0
    /\ calls' = [calls EXCEPT !.generate = @ + 1]
    /\ \E raw \in LlmRawOutputs :
          LET validated == GenerateFrom(raw)
          IN /\ json_output' = raw.obj
             /\ IF validated.kind = "raise"
                THEN /\ response' = HttpError(500, "Failed to generate answer")
                     /\ pc' = "done"
                     /\ UNCHANGED result
                ELSE /\ result' = validated.value
                     /\ pc' = "validate_output"
                     /\ UNCHANGED response
    /\ UNCHANGED ragVars
    /\ UNCHANGED <<gcall, question, sanitized_query, faiss_results, rr_i, rr_attempt, scored,
                   selected, context_text, pages, media_files>>

\* api.py: GUARDRAIL 3 in lenient mode, then the latency is set and the result returned
ValidateOutputStep ==
    /\ pc = "validate_output"
    /\ LET checked == validate_output(result, pages, media_files, FALSE)
       IN IF checked.kind = "raise"
          THEN response' = HttpError(500, "Generated answer failed validation")
          ELSE \E total_latency \in 0..MaxLatency :
                  response' = Ok([result EXCEPT !.latency_ms = total_latency])
    /\ pc' = "done"
    /\ UNCHANGED ragVars
    /\ UNCHANGED <<gcall, calls, question, sanitized_query, faiss_results, rr_i, rr_attempt, scored,
                   selected, context_text, pages, media_files, json_output, result>>

Next ==
    \/ ValidateInputStep
    \/ SearchFails
    \/ SearchReturns
    \/ RerankCallFails
    \/ RerankCallReturns
    \/ BuildContext
    \/ RespondNoContext
    \/ ValidateContextStep
    \/ GenerateCallFails
    \/ GenerateCallReturns
    \/ ValidateOutputStep

Spec == Init /\ [][Next]_vars

\* the handler runs on: a step that can be taken is taken
LiveSpec == Spec /\ WF_vars(Next)

(***************************************************************************)
(* The guardrail functions called on their own: one call per behaviour,    *)
(* with its arguments drawn from the bounded sets above.                   *)
(***************************************************************************)
GuardInit ==
    /\ gcall = NoCall
    /\ pc = "done"
    /\ question = <<>>
    /\ sanitized_query = <<>>
    /\ faiss_results = <<>>
    /\ rr_i = 0
    /\ rr_attempt = 0
    /\ scored = <<>>
    /\ selected = <<>>
    /\ context_text = PyNone
    /\ pages = <<>>
    /\ media_files = <<>>
    /\ json_output = EmptyDict
    /\ result = EmptyDict
    /\ response = NoResponse
    /\ calls = NoCalls
    /\ RagIdle

CallValidateInput ==
    /\ gcall = NoCall
    /\ \E query \in QueryInputs :
          gcall' = [fn |-> "validate_input", args |-> <<query>>,
                    result |-> validate_input(query),
                    warned |-> /\ Truthy(query) /\ query.t = "str"
                               /\ validate_input(query).kind = "raise"
                               /\ validate_input(query).msg
                                    = "Query contains suspicious patterns and was blocked for security"]
    /\ UNCHANGED ragVars
    /\ UNCHANGED pipeVars

CallValidateOutput ==
    /\ gcall = NoCall
    /\ \E answer_dict \in StructureInputs \cup ReferenceInputs,
          allowed_pages \in AllowedPagesInputs,
          allowed_media \in AllowedMediaInputs,
          strict \in BOOLEAN :
          gcall' = [fn |-> "validate_output",
                    args |-> <<answer_dict, allowed_pages, allowed_media, strict>>,
                    result |-> validate_output(answer_dict, allowed_pages, allowed_media, strict),
                    warned |-> FALSE]
    /\ UNCHANGED ragVars
    /\ UNCHANGED pipeVars

CallValidateContext ==
    /\ gcall = NoCall
    /\ \E context \in ContextInputs :
          gcall' = [fn |-> "validate_context", args |-> <<context>>,
                    result |-> validate_context(context),
                    warned |-> check_context_warns(context)]
    /\ UNCHANGED ragVars
    /\ UNCHANGED pipeVars

GuardNext == CallValidateInput \/ CallValidateOutput \/ CallValidateContext


GuardSpec == GuardInit /\ [][GuardNext]_vars

(***************************************************************************)
(* SimpleRAG (src/simple_rag.py) with the batched reranker                 *)
(* (src/reranker.py): retrieve, then answer.                               *)
(***************************************************************************)
\* SimpleRAG(top_k=...)
RagTopKs == {1, 2, TOP_K}

MaxItems == 2

\* The reranker's reply once RerankResult(**data) accepted it: any list of
\* items with an integer id and a score; n is the number of passages sent.
RankingReplies(n) ==
    StringsUpTo({[id |-> i, score |-> x] : i \in (-1)..n, x \in 0..MaxScore}, MaxItems)

\* xs[i] for a Python index i: a negative index counts from the end
PyIndex(xs, i) ==
    IF i >= 0 /\ i < Len(xs) THEN Return(PyInt(xs[i + 1]))
    ELSE IF i < 0 /\ -i <= Len(xs) THEN Return(PyInt(xs[Len(xs) + i + 1]))
    ELSE Raise("IndexError", "list index out of range")

\* "\n\n---\n\n".join(f["text"] for f in final)
RagContext(chunks) ==
    Join(<<10, 10, 45, 45, 45, 10, 10>>, [n \in 1..Len(chunks) |-> CHUNKS[chunks[n]].text])

RagInit ==
    /\ gcall = NoCall
    /\ pc = "done"
    /\ question = <<>>
    /\ sanitized_query = <<>>
    /\ faiss_results = <<>>
    /\ rr_i = 0
    /\ rr_attempt = 0
    /\ scored = <<>>
    /\ selected = <<>>
    /\ context_text = PyNone
    /\ pages = <<>>
    /\ media_files = <<>>
    /\ json_output = EmptyDict
    /\ result = EmptyDict
    /\ response = NoResponse
    /\ calls = NoCalls
    /\ rag_pc = "search"
    /\ rag_top_k \in RagTopKs
    /\ docs = <<>>
    /\ results = <<>>
    /\ ranking = <<>>
    /\ final = <<>>
    /\ retrieved = NothingRetrieved
    /\ rag_out = NoOutcome

\* retrieve: load_index_and_metadata or hybrid_search raises
HybridSearchFails ==
    /\ rag_pc = "search"
    /\ rag_out' = Raise("Exception", "hybrid search failed")
    /\ rag_pc' = "done"
    /\ UNCHANGED <<gcall, rag_top_k, docs, results, ranking, final, retrieved>>
    /\ UNCHANGED pipeVars

\* retrieve: hybrid_search(use_reranker=False) merges the candidates of the two
\* retrievers into docs[:candidate_k] and returns results[:top_k]
HybridSearchReturns ==
    /\ rag_pc = "search"
    /\ \E found \in ShortCandidateLists :
          /\ docs' = Take(found, CANDIDATE_K)
          /\ results' = Take(Take(found, CANDIDATE_K), rag_top_k)
    /\ rag_pc' = "score"
    /\ UNCHANGED <<gcall, rag_top_k, ranking, final, retrieved, rag_out>>
    /\ UNCHANGED pipeVars

\* score_passages raises: the provider call fails, the reply holds no JSON,
\* or RerankResult(**data) rejects it
ScorePassagesFails ==
    /\ rag_pc = "score"
    /\ rag_out' = Raise("Exception", "score_passages failed")
    /\ rag_pc' = "done"
    /\ UNCHANGED <<gcall, rag_top_k, docs, results, ranking, final, retrieved>>
    /\ UNCHANGED pipeVars

\* score_passages returns the validated reply of its one provider call
ScorePassagesReturns ==
    /\ rag_pc = "score"
    /\ \E reply \in RankingReplies(Len(results)) : ranking' = reply
    /\ rag_pc' = "select"
    /\ UNCHANGED <<gcall, rag_top_k, docs, results, final, retrieved, rag_out>>
    /\ UNCHANGED pipeVars

\* retrieve: sorted(ranking.results, key=score, reverse=True), then
\* [results[item.id] for item in ranked[:top_k]]; the context joins the chunks
\* selected, pages lists the set of their media in any order, and images is the
\* sorted diagrams of every chunk of the store on a page of a selected chunk,
\* at most 25 of them
SelectFinal ==
    /\ rag_pc = "select"
    /\ LET ranked == SortByScore(ranking)
           top == Take(ranked, rag_top_k)
           picked == [n \in 1..Len(top) |-> PyIndex(results, top[n].id)]
           chosen == [n \in 1..Len(top) |-> picked[n].value.v[1]]
           media == UNION {Elems(CHUNKS[chosen[n]].media) : n \in 1..Len(top)}
           unique_pages == {CHUNKS[chosen[n]].page : n \in 1..Len(top)}
           all_diagrams ==
               UNION {Elems(CHUNKS[k].diagram_ids) :
                        k \in {m \in 1..Len(CHUNKS) : CHUNKS[m].page \in unique_pages}}
       IN IF \E n \in 1..Len(top) : picked[n].kind = "raise"
          THEN /\ rag_out' = Raise("IndexError", "list index out of range")
               /\ rag_pc' = "done"
               /\ UNCHANGED <<final, retrieved>>
          ELSE /\ final' = chosen
               /\ \E order \in [1..Cardinality(media) -> media] :
                     /\ \A a, b \in 1..Cardinality(media) : a # b => order[a] # order[b]
                     /\ retrieved' = [context |-> RagContext(chosen),
                                      pages |-> order,
                                      images |-> Take(SortedSet(all_diagrams), 25)]
               /\ rag_pc' = "answer"
               /\ UNCHANGED rag_out
    /\ UNCHANGED <<gcall, rag_top_k, docs, results, ranking>>
    /\ UNCHANGED pipeVars

\* answer: validate_context(context), whose return value None becomes the
\* context, then self.generator.generate, a method AnswerGenerator lacks
AnswerStep ==
    /\ rag_pc = "answer"
    /\ LET checked == validate_context(PyStr(retrieved.context))
       IN rag_out' = IF checked.kind = "raise" THEN checked
                     ELSE Raise("AttributeError", "generate")
    /\ rag_pc' = "done"
    /\ UNCHANGED <<gcall, rag_top_k, docs, results, ranking, final, retrieved>>
    /\ UNCHANGED pipeVars

RagNext ==
    \/ HybridSearchFails
    \/ HybridSearchReturns
    \/ ScorePassagesFails
    \/ ScorePassagesReturns
    \/ SelectFinal
    \/ AnswerStep

RagSpec == RagInit /\ [][RagNext]_vars

(***************************************************************************)
(* Properties of the answer pipeline (Spec)                                *)
(***************************************************************************)
\* the members of xs that are in allowed, in order
Restrict(xs, allowed) == SelectSeq(xs, LAMBDA x : InList(x, allowed))

\* the length of s without its leading and trailing whitespace
TrimmedLength(s) ==
    LET leading == Cardinality({i \in 1..Len(s) : \A j \in 1..i : IsSpace(s[j])})
        trailing == Cardinality({i \in 1..Len(s) : \A j \in i..Len(s) : IsSpace(s[j])})
    IN IF leading = Len(s) THEN 0 ELSE Len(s) - leading - trailing

\* every required field of an answer is there
AllFieldsPresent(d) ==
    /\ {"mode", "answer", "links", "media"} \subseteq DOMAIN d
    /\ {"title", "summary", "steps", "verification"} \subseteq DOMAIN d.answer

ImagesOf(d) == IF "images" \in DOMAIN d.media THEN d.media.images ELSE <<>>

\* the size limits of an answer, its title and summary measured by Measure
WithinBounds(d, Measure(_)) ==
    /\ Measure(d.answer.title) >= 5
    /\ Measure(d.answer.summary) >= 10
    /\ Measure(d.answer.summary) <= 2000
    /\ Len(d.answer.steps) <= 10
    /\ Len(d.links) <= 10
    /\ Len(ImagesOf(d)) <= 5

\* the answer generation returned, if it returned one
Generated == DOMAIN result # {}

\* C1: every answer the endpoint returns with status 200 has its links among
\* the allowed pages and its media images among the allowed media of the
\* request's selected chunks, whatever the model's raw output contained.
GroundingInvariant ==
    (pc = "done" /\ response.status = 200) =>
        /\ \A n \in 1..Len(response.body.links) : InList(response.body.links[n], pages)
        /\ \A n \in 1..Len(response.body.media.images) :
              InList(response.body.media.images[n], media_files)

\* C2: when the model's output (otherwise within the size limits) cites a
\* link outside the allowed pages or an image outside the allowed media, the
\* request still succeeds, and the returned links and images are the model's
\* restricted to the allowed ones.
ReferenceFilteringNonFatal ==
    (/\ pc = "done"
     /\ Generated
     /\ WithinBounds(result, TrimmedLength)
     /\ \/ \E n \in 1..Len(result.links) : ~InList(result.links[n], pages)
        \/ \E n \in 1..Len(result.media.images) : ~InList(result.media.images[n], media_files))
    => /\ response.status = 200
       /\ response.body.links = Restrict(result.links, pages)
       /\ response.body.media.images = Restrict(result.media.images, media_files)

\* "general knowledge", "does not provide any information", "context does
\* not contain", "outside the provided context", "common knowledge"
HEDGE_PHRASES ==
    {<<103, 101, 110, 101, 114, 97, 108, 32, 107, 110, 111, 119, 108, 101, 100, 103, 101>>,
     <<100, 111, 101, 115, 32, 110, 111, 116, 32, 112, 114, 111, 118, 105, 100, 101, 32, 97, 110, 121, 32, 105, 110, 102, 111, 114, 109, 97, 116, 105, 111, 110>>,
     <<99, 111, 110, 116, 101, 120, 116, 32, 100, 111, 101, 115, 32, 110, 111, 116, 32, 99, 111, 110, 116, 97, 105, 110>>,
     <<111, 117, 116, 115, 105, 100, 101, 32, 116, 104, 101, 32, 112, 114, 111, 118, 105, 100, 101, 100, 32, 99, 111, 110, 116, 101, 120, 116>>,
     <<99, 111, 109, 109, 111, 110, 32, 107, 110, 111, 119, 108, 101, 100, 103, 101>>}

\* text contains a hedge phrase, whatever the case of its letters
ContainsHedge(text) == \E phrase \in HEDGE_PHRASES : Search(<<Lit(phrase)>>, Lower(text))

\* C3: whenever the summary or the verification of the model's output
\* contains a hedge phrase, the answer the generator returns is the
\* canonical "No Information Found" answer with no links and no images.
HallucinationCollapse ==
    (/\ Generated
     /\ \/ ContainsHedge(json_output.answer.summary)
        \/ \E n \in 1..Len(json_output.answer.verification) :
              ContainsHedge(json_output.answer.verification[n]))
    => /\ result.answer.title = NO_INFO_TITLE
       /\ result.links = <<>>
       /\ result.media.images = <<>>

(***************************************************************************)
(* Properties of the guardrail functions (GuardSpec)                       *)
(***************************************************************************)
\* the call made raised GuardrailViolation
Violation == gcall.result.kind = "raise" /\ gcall.result.exc = "GuardrailViolation"

\* C4: validate_input raises GuardrailViolation for None, a non-string and
\* the empty string ("non-empty string"), for a string whose trimmed length
\* is below MIN_QUERY_LENGTH ("too short") and for one whose trimmed length
\* is above MAX_QUERY_LENGTH ("too long").
BadQueryRaises ==
    gcall.fn = "validate_input" =>
        LET query == gcall.args[1]
            blank == query.t # "str" \/ Len(query.v) = 0
        IN /\ blank =>
                gcall.result = GuardrailViolation("Query must be a non-empty string")
           /\ (~blank /\ TrimmedLength(query.v) < MIN_QUERY_LENGTH) =>
                gcall.result = GuardrailViolation("Query too short (min 3 chars)")
           /\ (~blank /\ TrimmedLength(query.v) > MAX_QUERY_LENGTH) =>
                gcall.result = GuardrailViolation("Query too long (max 500 chars)")

\* a query longer than MAX_QUERY_LENGTH even when trimmed was rejected, and
\* so was one that is long enough only with its surrounding whitespace
BadQueryRaisesSeen ==
    /\ gcall.fn = "validate_input"
    /\ gcall.args[1].t = "str"
    /\ Violation
    /\ \/ /\ TrimmedLength(gcall.args[1].v) = MAX_QUERY_LENGTH + 1
          /\ Len(gcall.args[1].v) > MAX_QUERY_LENGTH + 1
       \/ /\ TrimmedLength(gcall.args[1].v) = MIN_QUERY_LENGTH - 1
          /\ Len(gcall.args[1].v) > MIN_QUERY_LENGTH

\* s holds a tag: a "<", then at least one character other than ">", then a ">"
HasTag(s) ==
    \E i \in 1..Len(s), j \in 1..Len(s) :
        /\ s[i] = 60
        /\ s[j] = 62
        /\ j >= i + 2
        /\ \A m \in (i + 1)..(j - 1) : s[m] # 62

\* C5: the string validate_input returns has no HTML tag, no control
\* character, no two consecutive whitespace characters and no leading or
\* trailing whitespace, for every order and mix of the removed characters.
SanitizedIsClean ==
    (gcall.fn = "validate_input" /\ gcall.result.kind = "return") =>
        LET out == gcall.result.value.v
        IN /\ ~HasTag(out)
           /\ \A i \in 1..Len(out) : ~IsControl(out[i])
           /\ \A i \in 1..(Len(out) - 1) : ~(IsSpace(out[i]) /\ IsSpace(out[i + 1]))
           /\ Len(out) > 0 => ~IsSpace(out[1]) /\ ~IsSpace(out[Len(out)])

\* C6: in strict mode validate_output raises GuardrailViolation whenever a
\* link is not in allowed_pages or a media image is not in allowed_media,
\* a diagram label such as "Diagram D6" included.
StrictRejectsUnlisted ==
    (/\ gcall.fn = "validate_output"
     /\ gcall.args[4]
     /\ AllFieldsPresent(gcall.args[1])
     /\ \/ \E n \in 1..Len(gcall.args[1].links) :
              ~InList(gcall.args[1].links[n], gcall.args[2])
        \/ \E n \in 1..Len(ImagesOf(gcall.args[1])) :
              ~InList(ImagesOf(gcall.args[1])[n], gcall.args[3]))
    => Violation

\* every link starts with "/media/", every image with "/media/" or "Diagram "
PrefixesGood(d) ==
    /\ \A n \in 1..Len(d.links) : StartsWith(d.links[n], MEDIA_PREFIX)
    /\ \A n \in 1..Len(ImagesOf(d)) :
          \/ StartsWith(ImagesOf(d)[n], MEDIA_PREFIX)
          \/ StartsWith(ImagesOf(d)[n], DIAGRAM_PREFIX)

\* C7: in lenient mode validate_output accepts a structurally valid answer
\* whose links all start with "/media/" and whose images all start with
\* "/media/" or "Diagram ", in the allowed sets or not, and raises
\* GuardrailViolation for a link or an image without such a prefix.
LenientGoesByPrefix ==
    (/\ gcall.fn = "validate_output"
     /\ ~gcall.args[4]
     /\ AllFieldsPresent(gcall.args[1])
     /\ WithinBounds(gcall.args[1], TrimmedLength))
    => /\ PrefixesGood(gcall.args[1]) => gcall.result = Return(PyNone)
       /\ ~PrefixesGood(gcall.args[1]) => Violation

\* a lenient call accepted a link outside the allowed pages together with a
\* diagram label outside the allowed media
LenientGoesByPrefixSeen ==
    /\ gcall.fn = "validate_output"
    /\ ~gcall.args[4]
    /\ AllFieldsPresent(gcall.args[1])
    /\ \E n \in 1..Len(gcall.args[1].links) : ~InList(gcall.args[1].links[n], gcall.args[2])
    /\ \E n \in 1..Len(ImagesOf(gcall.args[1])) :
          /\ StartsWith(ImagesOf(gcall.args[1])[n], DIAGRAM_PREFIX)
          /\ ~InList(ImagesOf(gcall.args[1])[n], gcall.args[3])
    /\ gcall.result.kind = "return"

\* the references pass check_output_references: the prefixes, and in strict
\* mode the allowed sets, a diagram label being exempt
ReferencesWellFormed(d, allowed_pages, allowed_media, strict) ==
    /\ PrefixesGood(d)
    /\ strict => /\ \A n \in 1..Len(d.links) : InList(d.links[n], allowed_pages)
                 /\ \A n \in 1..Len(ImagesOf(d)) :
                       \/ StartsWith(ImagesOf(d)[n], DIAGRAM_PREFIX)
                       \/ InList(ImagesOf(d)[n], allowed_media)

\* validate_output raises when a field is missing or a size limit is broken,
\* and raises nothing when the limits are met and the references well-formed
OutputBounds(Measure(_)) ==
    gcall.fn = "validate_output" =>
        LET d == gcall.args[1]
        IN IF ~AllFieldsPresent(d) THEN Violation
           ELSE IF ~WithinBounds(d, Measure) THEN Violation
           ELSE ReferencesWellFormed(d, gcall.args[2], gcall.args[3], gcall.args[4])
                    => gcall.result = Return(PyNone)

\* C8 as stated: the title and the summary are measured as given.
OutputBoundsAsGiven == OutputBounds(Len)

\* C8: validate_output raises GuardrailViolation if a required field is
\* missing, if the title without its surrounding whitespace has fewer than 5
\* characters, if the summary without its surrounding whitespace has fewer
\* than 10 or more than 2000, if there are more than 10 steps, more than 10
\* links or more than 5 media images; it raises nothing when these limits
\* are met and the references are well-formed.
OutputBoundsTrimmed == OutputBounds(TrimmedLength)

\* a summary of more than 2000 characters, 2000 of them without the
\* surrounding whitespace, was accepted
OutputBoundsTrimmedSeen ==
    /\ gcall.fn = "validate_output"
    /\ AllFieldsPresent(gcall.args[1])
    /\ Len(gcall.args[1].answer.summary) > MAX_ANSWER_LENGTH
    /\ TrimmedLength(gcall.args[1].answer.summary) = MAX_ANSWER_LENGTH
    /\ gcall.result = Return(PyNone)

\* C9: for a plain-text context (no markup) of length 1 to
\* MAX_CONTEXT_LENGTH, validate_context returns the context string itself.
ContextReturned ==
    (/\ gcall.fn = "validate_context"
     /\ gcall.args[1].t = "str"
     /\ Len(gcall.args[1].v) \in 1..MAX_CONTEXT_LENGTH
     /\ \A i \in 1..Len(gcall.args[1].v) : gcall.args[1].v[i] \notin {60, 62})
    => gcall.result = Return(gcall.args[1])

\* C10: validate_context raises GuardrailViolation exactly when the context
\* is empty or longer than MAX_CONTEXT_LENGTH; a non-empty context shorter
\* than MIN_CONTEXT_LENGTH is accepted, with a warning.
ContextRaisesExactly ==
    gcall.fn = "validate_context" =>
        LET context == gcall.args[1]
            empty == context.t = "None" \/ Len(context.v) = 0
        IN /\ gcall.result.kind = "raise" <=> (empty \/ Len(context.v) > MAX_CONTEXT_LENGTH)
           /\ gcall.result.kind = "raise" => Violation
           /\ (~empty /\ Len(context.v) < MIN_CONTEXT_LENGTH) =>
                gcall.result.kind = "return" /\ gcall.warned

\* a context one character short of MIN_CONTEXT_LENGTH was accepted with a
\* warning
ContextRaisesExactlySeen ==
    /\ gcall.fn = "validate_context"
    /\ gcall.args[1].t = "str"
    /\ Len(gcall.args[1].v) = MIN_CONTEXT_LENGTH - 1
    /\ gcall.result.kind = "return"
    /\ gcall.warned

(***************************************************************************)
(* Properties of the stages of the answer pipeline (Spec)                  *)
(***************************************************************************)
\* C11: a context longer than MAX_CONTEXT_LENGTH is fatal: the generator is
\* never called with it and the request ends with an error.
LongContextIsFatal ==
    (context_text.t = "str" /\ Len(context_text.v) > MAX_CONTEXT_LENGTH) =>
        /\ pc \notin {"generate", "validate_output"}
        /\ calls.generate = 0
        /\ pc = "done" => response.status >= 400

\* the words of the query and of the context of the selected chunks overlap
WordsOverlap ==
    Elems(Split(Lower(sanitized_query))) \cap Elems(Split(Lower(ContextText(selected)))) # {}

\* the canonical "No Information Found" answer was returned with status 200
NoInformationReturned ==
    /\ response.status = 200
    /\ response.body.answer.title = NO_INFO_TITLE
    /\ response.body.links = <<>>
    /\ response.body.media.images = <<>>

\* the request passed the input guardrail
InputAccepted == validate_input(PyStr(question)).kind = "return"

\* the query handed to the retriever has no word: it is empty
QueryHasNoWord == Len(Split(Lower(sanitized_query))) = 0

\* C12 as stated: whenever the words of the query and of the assembled
\* context do not overlap, an empty query and an empty context included, the
\* request returns status 200 with the title "No Information Found", no
\* links and no images, and the answer generator is not called.
NoRelevantContextAsStated ==
    (/\ pc = "done"
     /\ InputAccepted
     /\ \/ QueryHasNoWord
        \/ calls.search = "empty"
        \/ calls.search = "some" /\ ~WordsOverlap)
    => NoInformationReturned /\ calls.generate = 0

\* C12: whenever the embedding search returned and the words of the query
\* and of the assembled context do not overlap, or there is no context at
\* all, the request returns status 200 with the title "No Information
\* Found", no links and no images, and the answer generator is not called;
\* a query left empty by the input guardrail never gets that far: the
\* embedding search raises on it and the request returns status 500, the
\* answer generator not being called either.
NoRelevantContextAnswer ==
    /\ (/\ pc = "done"
        /\ \/ calls.search = "empty"
           \/ calls.search = "some" /\ ~WordsOverlap)
       => NoInformationReturned /\ calls.generate = 0
    /\ (pc = "done" /\ InputAccepted /\ QueryHasNoWord)
       => /\ calls.search = "failed"
          /\ response.status = 500
          /\ calls.generate = 0

\* a request whose chunks were selected and share no word with the query
\* ended with the canonical answer
NoRelevantContextAnswerSeen ==
    /\ pc = "done"
    /\ calls.search = "some"
    /\ Len(selected) > 0
    /\ ~WordsOverlap
    /\ NoInformationReturned

\* C13: when retrieval returns no candidates at all, the request fails with
\* a service failure (status 500 or above) and gives no successful answer.
EmptyRetrievalFails ==
    (pc = "done" /\ calls.search = "empty") => response.status >= 500

\* C14: every GuardrailViolation raised while serving a request, at the
\* input, the context or the output boundary, is surfaced as a 400-class
\* error; an output that fails validate_output is a 400, not a 500.
ViolationsAre400 ==
    (/\ pc = "done"
     /\ \/ validate_input(PyStr(question)).kind = "raise"
        \/ context_text.t = "str" /\ validate_context(context_text).kind = "raise"
        \/ Generated /\ validate_output(result, pages, media_files, FALSE).kind = "raise")
    => response.status \in 400..499

\* C15: when a provider call has failed on all API_MAX_RETRIES + 1 attempts
\* the request is abandoned with an error: the pipeline does not go on with
\* a default score for that candidate.
ExhaustedRetriesAbandon ==
    calls.exhausted => pc = "done" /\ response.status >= 400

\* C16: the generator retries a failed text-generation call: a request that
\* ended in a generation error after a provider failure made more than one
\* call.
GenerationIsRetried ==
    (pc = "done" /\ calls.generate_failed >= 1 /\ response.status >= 500)
    => calls.generate >= 2

\* C17: reranking the n >= 1 candidates of a request takes one provider
\* call, retries of a failed call not counted.
OneRerankCall ==
    (calls.search = "some" /\ pc \notin {"validate_input", "search", "rerank"})
    => calls.rerank = 1

(***************************************************************************)
(* Properties of SimpleRAG's reranked retrieval (RagSpec)                  *)
(***************************************************************************)
\* C18: once the reranker's reply scores an id outside 0..n-1, for the n
\* passages sent, retrieval has failed with an error and no chunk was selected.
OutOfRangeIdFails ==
    (/\ rag_pc \in {"answer", "done"}
     /\ \E k \in 1..Len(ranking) : ranking[k].id < 0 \/ ranking[k].id >= Len(results))
    => rag_pc = "done" /\ rag_out.kind = "raise" /\ final = <<>>

\* C19: a reply accepted from the reranker lists every index 0..n-1 exactly
\* once, and the chunks selected from it are pairwise distinct.
AcceptedScoresCoverCandidates ==
    rag_pc \in {"select", "answer"}
    => /\ Len(ranking) = Len(results)
       /\ \A c \in 0..(Len(results) - 1) : \E k \in 1..Len(ranking) : ranking[k].id = c
       /\ \A a, b \in 1..Len(final) : a # b => final[a] # final[b]

\* C20: when the reply lists every index 0..n-1 exactly once, the selected
\* chunks are in non-increasing score order and chunks with equal scores are
\* in their retrieval order.
SelectedInScoreThenCandidateOrder ==
    (/\ rag_pc = "answer"
     /\ Len(ranking) = Len(results)
     /\ \A c \in 0..(Len(results) - 1) : \E k \in 1..Len(ranking) : ranking[k].id = c)
    => LET pos(chunk) == CHOOSE p \in 1..Len(results) : results[p] = chunk
           scoreOf(chunk) == ranking[CHOOSE k \in 1..Len(ranking) : ranking[k].id = pos(chunk) - 1].score
       IN \A a, b \in 1..Len(final) :
             a < b => \/ scoreOf(final[a]) > scoreOf(final[b])
                      \/ /\ scoreOf(final[a]) = scoreOf(final[b])
                         /\ pos(final[a]) < pos(final[b])

(***************************************************************************)
(* Properties of the query validate_input hands on (GuardSpec)             *)
(***************************************************************************)
\* C29: no pattern of INJECTION_PATTERNS is found in a string validate_input
\* returns, also when tags or removed characters stood inside the pattern's
\* words in the query as given.
ReturnedQueryHasNoInjection ==
    (gcall.fn = "validate_input" /\ gcall.result.kind = "return")
    => ~InjectionFound(gcall.result.value.v)

\* C30: a string validate_input returns has between MIN_QUERY_LENGTH and
\* MAX_QUERY_LENGTH characters.
ReturnedQueryLengthInBounds ==
    (gcall.fn = "validate_input" /\ gcall.result.kind = "return")
    => /\ Len(gcall.result.value.v) >= MIN_QUERY_LENGTH
       /\ Len(gcall.result.value.v) <= MAX_QUERY_LENGTH

(***************************************************************************)
(* Properties of what SimpleRAG selects and allows (RagSpec)               *)
(***************************************************************************)
\* C21: for a non-empty list of candidates, the number of chunks selected
\* after reranking is the smaller of top_k and the number of candidates.
SelectedCountIsMin ==
    (rag_pc = "answer" /\ Len(results) >= 1)
    => Len(final) = IF rag_top_k < Len(results) THEN rag_top_k ELSE Len(results)

\* C22: when the merged retrieval holds more than top_k candidates, the
\* reranker is sent more than top_k passages.
RerankerSeesAllCandidates ==
    (rag_pc \in {"score", "select", "answer"} /\ Len(docs) > rag_top_k)
    => Len(results) > rag_top_k

\* C23: every allowed page is in the media of a selected chunk and every
\* allowed diagram is in the diagram_ids of a selected chunk.
AllowedSetsFromSelected ==
    rag_pc = "answer"
    => /\ \A n \in 1..Len(retrieved.pages) :
             \E m \in 1..Len(final) : InList(retrieved.pages[n], CHUNKS[final[m]].media)
       /\ \A n \in 1..Len(retrieved.images) :
             \E m \in 1..Len(final) : InList(retrieved.images[n], CHUNKS[final[m]].diagram_ids)

(***************************************************************************)
(* Properties of one request as a whole (Spec, LiveSpec)                   *)
(***************************************************************************)
\* C24: a stage has run only if every earlier stage succeeded: the index is
\* searched only for a query the input guardrail accepted, reranking runs only
\* on candidates found, the answering model is called only with a context the
\* context guardrail accepted, and a generated answer is returned only if the
\* output guardrail accepted it.
StagesRunInOrder ==
    /\ calls.search # "none" => validate_input(PyStr(question)).kind = "return"
    /\ calls.rerank > 0 => calls.search = "some"
    /\ calls.generate > 0 =>
          /\ calls.search = "some"
          /\ context_text # PyNone
          /\ validate_context(context_text).kind = "return"
    /\ (response.status = 200 /\ Generated) =>
          validate_output(result, pages, media_files, FALSE).kind = "return"

\* C25: a response returned with status 200 has the mode "answer", a title of
\* at least 5 characters, a summary of 10 to 2000 characters, at most 10
\* steps, at most 10 links that each start with "/media/", at most MAX_MEDIA
\* images, and the latency measured for the request.
OkResponseWithinBounds ==
    response.status = 200 =>
        LET body == response.body
        IN /\ body.mode = <<97, 110, 115, 119, 101, 114>>
           /\ Len(body.answer.title) >= MIN_TITLE_LENGTH
           /\ Len(body.answer.summary) >= MIN_SUMMARY_LENGTH
           /\ Len(body.answer.summary) <= MAX_ANSWER_LENGTH
           /\ Len(body.answer.steps) <= MAX_STEPS
           /\ Len(body.links) <= MAX_LINKS
           /\ \A n \in 1..Len(body.links) : StartsWith(body.links[n], MEDIA_PREFIX)
           /\ Len(body.media.images) <= MAX_MEDIA
           /\ body.latency_ms \in 0..MaxLatency

\* C26: no request reads the index and its metadata from disk: they were
\* loaded before the first request.
IndexLoadedOnlyAtStartup == calls.load = 0

\* C27: every request ends, with one response of status 200, 400 or 500 that
\* is set as the request ends; the retry loop of a candidate makes at most
\* API_MAX_RETRIES + 1 attempts and has slept 1 + 2 + ... + 2^(attempt - 1)
\* seconds before attempt number attempt; no step goes back to an earlier stage.
RequestTerminates ==
    /\ [](/\ rr_attempt <= API_MAX_RETRIES
          /\ calls.slept = 2 ^ rr_attempt - 1
          /\ pc # "done" => response = NoResponse
          /\ pc = "done" => response.status \in {200, 400, 500})
    /\ [][LET stage == [validate_input |-> 1, search |-> 2, rerank |-> 3, retrieved |-> 4,
                        generate |-> 5, validate_output |-> 6, done |-> 7]
          IN stage[pc'] >= stage[pc]]_vars
    /\ <>(pc = "done")

\* a request ended although every reranking call and the answering call failed
RequestTerminatesSeen ==
    /\ pc = "done"
    /\ calls.exhausted
    /\ calls.rerank > 0
    /\ calls.generate_failed = calls.generate
    /\ calls.generate = 1
    /\ response.status = 500

(***************************************************************************)
(* Parsing the provider's reply: json.loads, the text from the first { to  *)
(* the last }, and the validation of the parsed value                      *)
(* (src/generator.py, src/reranker.py, src/models.py).  Integers are the   *)
(* checker's: a numeral is read when its digits, the point dropped and the *)
(* zeros that end its fraction left out, make a number below 2^31.         *)
(***************************************************************************)
\* the number written by the decimal digits ds
Nat10(ds) ==
    LET nat[k \in 0..Len(ds)] == IF k = 0 THEN 0 ELSE nat[k - 1] * 10 + (ds[k] - 48)
    IN nat[Len(ds)]

\* a float.  <<m, e>> is m * 10^e with m not a multiple of ten and <<0, 0>> is 0.0;
\* <<"-0.0">>, <<"inf">>, <<"-inf">> and <<"nan">> are the other values of a double,
\* and a double is written with the digits of its repr, the fewest that read back
\* as the same double.  A number of 1.797693135e308 or more is an infinity and one
\* of 2.470328229e-324 or less a zero, as the nearest double is.  Below
\* 2.2250738585072014e-308 the doubles are the multiples of 2^-1074: a numeral
\* n * 10^x with x >= -323 is then the repr of its double, since no other numeral
\* that short is within 2^-1074 of it, and one with x <= -324 is rounded to the
\* nearest multiple k * 2^-1074 and written with the digits of that double.  R and H
\* are 2^1074 / 10^324 and 10^324 / 2^1075 to 24 digits, in groups of four: no
\* product with a number below 2^31 is near enough to a whole number or to a half
\* for the digits left out to count.
PyFloat(neg, m, e) ==
    LET zeros == CHOOSE z \in 0..9 : m % (10 ^ z) = 0 /\ (z = 9 \/ m % (10 ^ (z + 1)) # 0)
        n == m \div (10 ^ zeros)
        x == e + zeros
        digits == CHOOSE d \in 1..10 : (d = 10 \/ n < 10 ^ d) /\ (d = 1 \/ n >= 10 ^ (d - 1))
        top == digits + x - 1
        overflow == top > 308 \/ (top = 308 /\ n > 1797693134 \div (10 ^ (10 - digits)))
        underflow == \/ top < 0 - 324
                     \/ top = 0 - 324 /\ (digits = 10 \/ n <= 247032822 \div (10 ^ (9 - digits)))
        R == <<2024, 225, 3307, 3106, 1835, 2495>>
        H == <<2470, 3282, 2920, 6232, 7208, 8284>>
        \* the 36 decimal digits of t * K, K being six groups of four digits
        Times(t, K) ==
            LET limb[i \in 0..8] ==
                    (IF i = 0 THEN 0 ELSE limb[i - 1] \div 10000)
                    + (IF i <= 5 THEN (t % 10000) * K[6 - i] ELSE 0)
                    + (IF i \in 1..6 THEN ((t \div 10000) % 10000) * K[7 - i] ELSE 0)
                    + (IF i \in 2..7 THEN (t \div 100000000) * K[8 - i] ELSE 0)
            IN [p \in 1..36 |->
                   (((limb[8 - ((p - 1) \div 4)] % 10000) \div (10 ^ (3 - ((p - 1) % 4)))) % 10) + 48]
        \* the k of the multiple of 2^-1074 nearest to q * 10^(-324 - j)
        Ulps(q, j) ==
            LET d == Times(q, R)
            IN Nat10(SubSeq(d, 1, 12 - j)) + (IF d[13 - j] >= 53 THEN 1 ELSE 0)
        \* the repr of k * 2^-1074: of the numerals nearer to it than to the doubles
        \* next to it, in units of 10^-324 those between (k - 1/2) * 2 * H and
        \* (k + 1/2) * 2 * H, the one with the fewest digits, and the nearest of these
        Shortest(k) ==
            LET below == Nat10(SubSeq(Times(2 * k - 1, H), 1, 13))
                above == SubSeq(Times(2 * k + 1, H), 1, 13)
                near == Times(2 * k, H)
                Has(i) == Nat10(SubSeq(above, 1, 13 - i)) > below \div (10 ^ i)
            IN IF Has(1)
               THEN LET most == CHOOSE i \in 1..9 : Has(i) /\ (i = 9 \/ ~Has(i + 1))
                    IN <<Nat10(SubSeq(above, 1, 13 - most)), most - 324>>
               ELSE <<Nat10(SubSeq(near, 1, 13)) + (IF near[14] >= 53 THEN 1 ELSE 0), 0 - 324>>
        Signed(f) == <<IF neg THEN 0 - f[1] ELSE f[1], f[2]>>
    IN IF m = 0 \/ underflow THEN [t |-> "float", v |-> IF neg THEN <<"-0.0">> ELSE <<0, 0>>]
       ELSE IF overflow THEN [t |-> "float", v |-> IF neg THEN <<"-inf">> ELSE <<"inf">>]
       ELSE IF x <= 0 - 324 THEN [t |-> "float", v |-> Signed(Shortest(Ulps(n, 0 - 324 - x)))]
       ELSE [t |-> "float", v |-> <<IF neg THEN 0 - n ELSE n, x>>]
\* a dict: its (key, value) items in insertion order
PyDict(items) == [t |-> "dict", v |-> items]

\* d.get(key) as a sequence: empty when the key is missing
Lookup(d, key) ==
    LET at == {n \in 1..Len(d.v) : d.v[n][1] = key}
    IN IF at = {} THEN <<>> ELSE <<d.v[CHOOSE n \in at : TRUE][2]>>

\* the first position from k on that holds no decimal digit
DigitsEnd(s, k) ==
    CHOOSE j \in k..(Len(s) + 1) :
        /\ j = Len(s) + 1 \/ s[j] \notin 48..57
        /\ \A m \in k..(j - 1) : s[m] \in 48..57

\* the float written with the digits ip before the point, fp after it, and the exponent ex
Decimal(neg, ip, fp, ex) ==
    LET last == IF \E k \in 1..Len(fp) : fp[k] # 48
                THEN CHOOSE k \in 1..Len(fp) : fp[k] # 48 /\ \A m \in (k + 1)..Len(fp) : fp[m] = 48
                ELSE 0
    IN PyFloat(neg, Nat10(ip \o SubSeq(fp, 1, last)), ex - last)

\* what a scanning step yields: the value and the position after it, or a failure
Scanned(val, end) == [ok |-> TRUE, val |-> val, end |-> end]
NotScanned == [ok |-> FALSE, val |-> PyNone, end |-> 0]

\* the first position from i on that holds no JSON whitespace
SkipWs(s, i) ==
    CHOOSE j \in i..(Len(s) + 1) :
        /\ j = Len(s) + 1 \/ s[j] \notin {32, 9, 10, 13}
        /\ \A k \in i..(j - 1) : s[k] \in {32, 9, 10, 13}

\* scanstring from position j, just after the opening quote: a \uXXXX escape is
\* the character XXXX, and a high surrogate followed by the escape of a low one
\* is the one character the pair stands for
RECURSIVE ScanChars(_, _, _)
ScanChars(s, j, acc) ==
    LET esc == [c \in {34, 92, 47, 98, 102, 110, 114, 116} |->
                   CASE c = 98 -> 8 [] c = 102 -> 12 [] c = 110 -> 10
                     [] c = 114 -> 13 [] c = 116 -> 9 [] OTHER -> c]
        Hex(c) == IF c \in 48..57 THEN c - 48
                  ELSE IF c \in 65..70 THEN c - 55
                  ELSE IF c \in 97..102 THEN c - 87
                  ELSE 0 - 1
        IsHex4(k) == k + 3 <= Len(s) /\ \A n \in k..(k + 3) : Hex(s[n]) >= 0
        Hex4(k) == Hex(s[k]) * 4096 + Hex(s[k + 1]) * 256 + Hex(s[k + 2]) * 16 + Hex(s[k + 3])
        paired == /\ Hex4(j + 2) \in 55296..56319
                  /\ j + 7 <= Len(s) /\ s[j + 6] = 92 /\ s[j + 7] = 117
                  /\ IsHex4(j + 8) /\ Hex4(j + 8) \in 56320..57343
    IN IF j > Len(s) THEN NotScanned
       ELSE IF s[j] = 34 THEN Scanned(PyStr(acc), j + 1)
       ELSE IF s[j] = 92
       THEN (IF j + 1 > Len(s) THEN NotScanned
             ELSE IF s[j + 1] \in DOMAIN esc
             THEN ScanChars(s, j + 2, Append(acc, esc[s[j + 1]]))
             ELSE IF s[j + 1] # 117 \/ ~IsHex4(j + 2) THEN NotScanned
             ELSE IF paired
             THEN ScanChars(s, j + 12,
                      Append(acc, 65536 + (Hex4(j + 2) - 55296) * 1024 + (Hex4(j + 8) - 56320)))
             ELSE ScanChars(s, j + 6, Append(acc, Hex4(j + 2))))
       ELSE IF s[j] < 32 THEN NotScanned
       ELSE ScanChars(s, j + 1, Append(acc, s[j]))

\* NUMBER_RE at position i: -?(0|[1-9]\d*)(\.\d+)?([eE][-+]?\d+)?, an int when it
\* has neither fraction nor exponent and a float otherwise
ScanNumber(s, i) ==
    LET IsDigit(k) == k <= Len(s) /\ s[k] \in 48..57
        neg == s[i] = 45
        a == IF neg THEN i + 1 ELSE i
        intEnd == IF s[a] = 48 THEN a + 1 ELSE DigitsEnd(s, a)
        hasFrac == IsDigit(intEnd + 1) /\ s[intEnd] = 46
        fracEnd == IF hasFrac THEN DigitsEnd(s, intEnd + 1) ELSE intEnd
        expSign == IF fracEnd + 1 <= Len(s) /\ s[fracEnd + 1] \in {43, 45} THEN 1 ELSE 0
        hasExp == /\ fracEnd <= Len(s) /\ s[fracEnd] \in {101, 69}
                  /\ IsDigit(fracEnd + 1 + expSign)
        expEnd == IF hasExp THEN DigitsEnd(s, fracEnd + 1 + expSign) ELSE fracEnd
        written == IF hasExp THEN Nat10(SubSeq(s, fracEnd + 1 + expSign, expEnd - 1)) ELSE 0
        exponent == IF hasExp /\ expSign = 1 /\ s[fracEnd + 1] = 45 THEN 0 - written ELSE written
        whole == Nat10(SubSeq(s, a, intEnd - 1))
    IN IF ~IsDigit(a) THEN NotScanned
       ELSE IF ~hasFrac /\ ~hasExp
       THEN Scanned(PyInt(IF neg THEN 0 - whole ELSE whole), intEnd)
       ELSE Scanned(Decimal(neg, SubSeq(s, a, intEnd - 1),
                            IF hasFrac THEN SubSeq(s, intEnd + 1, fracEnd - 1) ELSE <<>>,
                            exponent), expEnd)

\* scan_once at position i, and the array and object scanners it calls; what a
\* scanner returns is computed once and then used
RECURSIVE ParseValue(_, _), ParseElems(_, _, _), ParseMembers(_, _, _)
ParseValue(s, i) ==
    IF i > Len(s) THEN NotScanned
    ELSE IF s[i] = 34 THEN ScanChars(s, i + 1, <<>>)
    ELSE IF s[i] = 123
    THEN (IF SkipWs(s, i + 1) <= Len(s) /\ s[SkipWs(s, i + 1)] = 125
          THEN Scanned(PyDict(<<>>), SkipWs(s, i + 1) + 1)
          ELSE ParseMembers(s, SkipWs(s, i + 1), <<>>))
    ELSE IF s[i] = 91
    THEN (IF SkipWs(s, i + 1) <= Len(s) /\ s[SkipWs(s, i + 1)] = 93
          THEN Scanned(PyList(<<>>), SkipWs(s, i + 1) + 1)
          ELSE ParseElems(s, SkipWs(s, i + 1), <<>>))
    ELSE IF LitAt(s, i, <<110, 117, 108, 108>>) THEN Scanned(PyNone, i + 4)
    ELSE IF LitAt(s, i, <<116, 114, 117, 101>>) THEN Scanned([t |-> "bool", v |-> <<TRUE>>], i + 4)
    ELSE IF LitAt(s, i, <<102, 97, 108, 115, 101>>) THEN Scanned([t |-> "bool", v |-> <<FALSE>>], i + 5)
    ELSE IF LitAt(s, i, <<78, 97, 78>>) THEN Scanned([t |-> "float", v |-> <<"nan">>], i + 3)
    ELSE IF LitAt(s, i, <<73, 110, 102, 105, 110, 105, 116, 121>>) THEN Scanned([t |-> "float", v |-> <<"inf">>], i + 8)
    ELSE IF LitAt(s, i, <<45, 73, 110, 102, 105, 110, 105, 116, 121>>) THEN Scanned([t |-> "float", v |-> <<"-inf">>], i + 9)
    ELSE IF s[i] = 45 \/ s[i] \in 48..57 THEN ScanNumber(s, i)
    ELSE NotScanned

\* JSONArray: the value at position i, then "," and the next value, or "]"
ParseElems(s, i, acc) ==
    CHOOSE out \in
        {IF ~r.ok THEN NotScanned
         ELSE LET j == SkipWs(s, r.end)
              IN IF j > Len(s) THEN NotScanned
                 ELSE IF s[j] = 44 THEN ParseElems(s, SkipWs(s, j + 1), Append(acc, r.val))
                 ELSE IF s[j] = 93 THEN Scanned(PyList(Append(acc, r.val)), j + 1)
                 ELSE NotScanned
         : r \in {ParseValue(s, i)}} : TRUE

\* JSONObject: the key at position i, ":", its value, then "," and the next key,
\* or "}"; Put is d[key] = val on the items of a dict
ParseMembers(s, i, acc) ==
    IF i > Len(s) \/ s[i] # 34 THEN NotScanned
    ELSE CHOOSE out \in
        {IF ~k.ok THEN NotScanned
         ELSE IF SkipWs(s, k.end) > Len(s) \/ s[SkipWs(s, k.end)] # 58 THEN NotScanned
         ELSE CHOOSE member \in
            {IF ~r.ok THEN NotScanned
             ELSE LET j == SkipWs(s, r.end)
                      key == k.val.v
                      Put(items, val) ==
                          IF \E n \in 1..Len(items) : items[n][1] = key
                          THEN [n \in 1..Len(items) |->
                                   IF items[n][1] = key THEN <<key, val>> ELSE items[n]]
                          ELSE Append(items, <<key, val>>)
                  IN IF j > Len(s) THEN NotScanned
                     ELSE IF s[j] = 125 THEN Scanned(PyDict(Put(acc, r.val)), j + 1)
                     ELSE IF s[j] = 44 THEN ParseMembers(s, SkipWs(s, j + 1), Put(acc, r.val))
                     ELSE NotScanned
             : r \in {ParseValue(s, SkipWs(s, SkipWs(s, k.end) + 1))}} : TRUE
         : k \in {ScanChars(s, i + 1, <<>>)}} : TRUE

\* json.loads(s): one value, whitespace around it, nothing after it
json_loads(s) ==
    CHOOSE out \in
        {IF r.ok /\ SkipWs(t, r.end) > Len(t)
         THEN Return(r.val)
         ELSE Raise("JSONDecodeError", "")
         : <<t, r>> \in {<<t, ParseValue(t, SkipWs(t, 1))>> : t \in {s}}} : TRUE

\* raw[raw.find("{") : raw.rfind("}") + 1], find and rfind being -1 when nothing is found
BraceSubstring(raw) ==
    LET find == IF \E n \in 1..Len(raw) : raw[n] = 123
                THEN (CHOOSE n \in 1..Len(raw) :
                          raw[n] = 123 /\ \A m \in 1..(n - 1) : raw[m] # 123) - 1
                ELSE 0 - 1
        rfind == IF \E n \in 1..Len(raw) : raw[n] = 125
                 THEN (CHOOSE n \in 1..Len(raw) :
                           raw[n] = 125 /\ \A m \in (n + 1)..Len(raw) : raw[m] # 125) - 1
                 ELSE 0 - 1
        \* a slice bound: negative counts from the end, and it is clamped to the string
        bound(x) == IF x < 0 THEN (IF Len(raw) + x < 0 THEN 0 ELSE Len(raw) + x)
                    ELSE IF x > Len(raw) THEN Len(raw) ELSE x
    IN SubSeq(raw, bound(find) + 1, bound(rfind + 1))

\* the string without the whitespace that starts and ends it, as the validation
\* of a number given as a string trims it
Trim(s) ==
    LET IsWhite(c) == \/ c >= 9 /\ c <= 13
                      \/ c \in {32, 133, 160, 5760, 8232, 8233, 8239, 8287, 12288}
                      \/ c >= 8192 /\ c <= 8202
        from == IF \E i \in 1..Len(s) : ~IsWhite(s[i])
                THEN CHOOSE i \in 1..Len(s) : ~IsWhite(s[i]) /\ \A j \in 1..(i - 1) : IsWhite(s[j])
                ELSE Len(s) + 1
        to == IF \E i \in 1..Len(s) : ~IsWhite(s[i])
              THEN CHOOSE i \in 1..Len(s) : ~IsWhite(s[i]) /\ \A j \in (i + 1)..Len(s) : IsWhite(s[j])
              ELSE Len(s)
    IN SubSeq(s, from, to)

\* the value of a field annotated int, as a sequence: empty when the value given is
\* refused.  An int is kept, a bool is 0 or 1, a float is taken when it is a whole
\* number below 2^63, and a string when it writes a whole number: it is trimmed,
\* one sign is taken off, then a run of zeros and underscores that starts with a
\* zero, then a fraction of zeros only, then single underscores between
\* characters, and what is left is a decimal numeral, signed when no sign was
\* taken off at the start
AsInt(x) ==
    LET \* the numeral left; minus tells that a sign - was taken off at the start
        Numeral(minus, plain) ==
            LET digits == IF plain[1] = 45 THEN Tail(plain) ELSE plain
            IN IF plain[1] = 45 /\ minus THEN <<>>
               ELSE IF digits = <<>> \/ \E m \in 1..Len(digits) : digits[m] \notin 48..57 THEN <<>>
               ELSE IF Len(digits) > 1 /\ digits[1] = 48 THEN <<>>
               ELSE IF minus \/ plain[1] = 45 THEN <<PyInt(0 - Nat10(digits))>>
               ELSE <<PyInt(Nat10(digits))>>
        \* the part before the fraction, its underscores taken out
        Whole(minus, whole) ==
            IF whole = <<>> THEN <<>>
            ELSE IF \/ whole[1] = 95 \/ whole[Len(whole)] = 95
                    \/ \E m \in 1..(Len(whole) - 1) : whole[m] = 95 /\ whole[m + 1] = 95 THEN <<>>
            ELSE Numeral(minus, SelectSeq(whole, LAMBDA c : c # 95))
        \* what follows the zeros: its fraction, when it has one, is zeros only
        Rest(minus, rest) ==
            LET point == IF \E i \in 1..Len(rest) : rest[i] = 46
                         THEN CHOOSE i \in 1..Len(rest) :
                                  rest[i] = 46 /\ \A m \in 1..(i - 1) : rest[m] # 46
                         ELSE 0
            IN IF point = 0 THEN Whole(minus, rest)
               ELSE IF point = Len(rest) \/ \E m \in (point + 1)..Len(rest) : rest[m] # 48 THEN <<>>
               ELSE Whole(minus, SubSeq(rest, 1, point - 1))
        \* the string after its sign: a run of zeros and underscores that starts it is left out
        Unsigned(minus, u) ==
            LET stop == IF \E i \in 2..Len(u) : u[i] \notin {48, 95}
                        THEN CHOOSE i \in 2..Len(u) :
                                 u[i] \notin {48, 95} /\ \A m \in 2..(i - 1) : u[m] \in {48, 95}
                        ELSE 0
            IN IF u = <<>> \/ u[1] \notin 48..57 THEN <<>>
               ELSE IF u[1] # 48 THEN Rest(minus, u)
               ELSE IF stop = 0 THEN Rest(minus, SubSeq(u, Len(u), Len(u)))
               ELSE IF u[stop] = 46 THEN Rest(minus, SubSeq(u, stop - 1, Len(u)))
               ELSE IF u[stop] = 45 \/ u[stop] \in 49..57 THEN Rest(minus, SubSeq(u, stop, Len(u)))
               ELSE <<>>
        str_as_int(t) ==
            IF t # <<>> /\ t[1] \in {43, 45} THEN Unsigned(t[1] = 45, Tail(t)) ELSE Unsigned(FALSE, t)
        abs == IF x.v[1] < 0 THEN 0 - x.v[1] ELSE x.v[1]
        size == CHOOSE d \in 1..10 : (d = 10 \/ abs < 10 ^ d) /\ (d = 1 \/ abs >= 10 ^ (d - 1))
        below2to63 == \/ size + x.v[2] < 19
                      \/ size + x.v[2] = 19 /\ (size = 10 \/ abs <= 922337203 \div (10 ^ (9 - size)))
    IN IF x.t = "int" THEN <<x>>
       ELSE IF x.t = "bool" THEN <<PyInt(IF x.v[1] THEN 1 ELSE 0)>>
       ELSE IF x.t = "str" THEN str_as_int(Trim(x.v))
       ELSE IF x.t # "float" THEN <<>>
       ELSE IF x.v \in {<<0, 0>>, <<"-0.0">>} THEN <<PyInt(0)>>
       ELSE IF Len(x.v) = 2 /\ x.v[2] >= 0 /\ below2to63 THEN <<PyInt(x.v[1] * 10 ^ x.v[2])>>
       ELSE <<>>

\* the value of a field annotated float, as a sequence: empty when the value given
\* is refused.  A float is kept, an int or a bool is the float equal to it, and a
\* string is trimmed and read as a sign, then inf, infinity or nan in any case of
\* letters, or digits with at most one point and an exponent; a string that is not
\* read so is read again without its underscores when none of them starts it, ends
\* it or follows another
AsFloat(x) ==
    LET parse(t) ==
            LET signed == t # <<>> /\ t[1] \in {43, 45}
                neg == signed /\ t[1] = 45
                u == IF signed THEN Tail(t) ELSE t
                low == SubSeq([k \in 1..Len(u) |->
                                  IF u[k] >= 65 /\ u[k] <= 90 THEN u[k] + 32 ELSE u[k]], 1, Len(u))
                intEnd == DigitsEnd(u, 1)
                hasPoint == intEnd <= Len(u) /\ u[intEnd] = 46
                fracEnd == IF hasPoint THEN DigitsEnd(u, intEnd + 1) ELSE intEnd
                hasExp == fracEnd <= Len(u) /\ u[fracEnd] \in {101, 69}
                expSign == IF fracEnd + 1 <= Len(u) /\ u[fracEnd + 1] \in {43, 45} THEN 1 ELSE 0
                expEnd == IF hasExp THEN DigitsEnd(u, fracEnd + 1 + expSign) ELSE fracEnd
                written == IF hasExp THEN Nat10(SubSeq(u, fracEnd + 1 + expSign, expEnd - 1)) ELSE 0
            IN IF low \in {<<105, 110, 102>>, <<105, 110, 102, 105, 110, 105, 116, 121>>}
               THEN <<[t |-> "float", v |-> IF neg THEN <<"-inf">> ELSE <<"inf">>]>>
               ELSE IF low = <<110, 97, 110>> THEN <<[t |-> "float", v |-> <<"nan">>]>>
               ELSE IF intEnd = 1 /\ (~hasPoint \/ fracEnd = intEnd + 1) THEN <<>>
               ELSE IF hasExp /\ expEnd = fracEnd + 1 + expSign THEN <<>>
               ELSE IF expEnd # Len(u) + 1 THEN <<>>
               ELSE <<Decimal(neg, SubSeq(u, 1, intEnd - 1),
                              IF hasPoint THEN SubSeq(u, intEnd + 1, fracEnd - 1) ELSE <<>>,
                              IF hasExp /\ expSign = 1 /\ u[fracEnd + 1] = 45
                              THEN 0 - written ELSE written)>>
        str_as_float(given) ==
            IF parse(Trim(given)) # <<>> THEN parse(Trim(given))
            ELSE IF /\ \E m \in 1..Len(given) : given[m] = 95
                    /\ given[1] # 95 /\ given[Len(given)] # 95
                    /\ ~\E m \in 1..(Len(given) - 1) : given[m] = 95 /\ given[m + 1] = 95
            THEN parse(SelectSeq(given, LAMBDA c : c # 95))
            ELSE <<>>
    IN IF x.t = "float" THEN <<x>>
       ELSE IF x.t = "int" THEN <<PyFloat(x.v[1] < 0, IF x.v[1] < 0 THEN 0 - x.v[1] ELSE x.v[1], 0)>>
       ELSE IF x.t = "bool" THEN <<PyFloat(FALSE, IF x.v[1] THEN 1 ELSE 0, 0)>>
       ELSE IF x.t = "str" THEN str_as_float(x.v)
       ELSE <<>>

\* AnswerResponse(**json_output) on a parsed value: the validated model, with the
\* defaults of mode and latency_ms; every failure is "Invalid answer structure"
ValidatedAnswer(data) ==
    LET field(d, key) == Lookup(d, key)[1]
        has(d, key, ok(_)) == Lookup(d, key) # <<>> /\ ok(field(d, key))
        IsStr(x) == x.t = "str"
        IsStrList(x) == x.t = "list" /\ \A n \in 1..Len(x.v) : x.v[n].t = "str"
        IsInt(x) == AsInt(x) # <<>>
        IsAnswer(x) == /\ x.t = "dict"
                       /\ has(x, <<116, 105, 116, 108, 101>>, IsStr)
                       /\ has(x, <<115, 117, 109, 109, 97, 114, 121>>, IsStr)
                       /\ has(x, <<115, 116, 101, 112, 115>>, IsStrList)
                       /\ has(x, <<118, 101, 114, 105, 102, 105, 99, 97, 116, 105, 111, 110>>, IsStrList)
        IsMedia(x) == x.t = "dict" /\ has(x, <<105, 109, 97, 103, 101, 115>>, IsStrList)
    IN IF /\ data.t = "dict"
          /\ has(data, <<97, 110, 115, 119, 101, 114>>, IsAnswer)
          /\ has(data, <<108, 105, 110, 107, 115>>, IsStrList)
          /\ has(data, <<109, 101, 100, 105, 97>>, IsMedia)
          /\ Lookup(data, <<109, 111, 100, 101>>) # <<>> => IsStr(field(data, <<109, 111, 100, 101>>))
          /\ Lookup(data, <<108, 97, 116, 101, 110, 99, 121, 95, 109, 115>>) # <<>> => IsInt(field(data, <<108, 97, 116, 101, 110, 99, 121, 95, 109, 115>>))
       THEN Return(PyDict(<<
                <<<<109, 111, 100, 101>>, IF Lookup(data, <<109, 111, 100, 101>>) # <<>> THEN field(data, <<109, 111, 100, 101>>)
                         ELSE PyStr(<<97, 110, 115, 119, 101, 114>>)>>,
                <<<<97, 110, 115, 119, 101, 114>>, PyDict(<<
                    <<<<116, 105, 116, 108, 101>>, field(field(data, <<97, 110, 115, 119, 101, 114>>), <<116, 105, 116, 108, 101>>)>>,
                    <<<<115, 117, 109, 109, 97, 114, 121>>, field(field(data, <<97, 110, 115, 119, 101, 114>>), <<115, 117, 109, 109, 97, 114, 121>>)>>,
                    <<<<115, 116, 101, 112, 115>>, field(field(data, <<97, 110, 115, 119, 101, 114>>), <<115, 116, 101, 112, 115>>)>>,
                    <<<<118, 101, 114, 105, 102, 105, 99, 97, 116, 105, 111, 110>>, field(field(data, <<97, 110, 115, 119, 101, 114>>), <<118, 101, 114, 105, 102, 105, 99, 97, 116, 105, 111, 110>>)>> >>)>>,
                <<<<108, 105, 110, 107, 115>>, field(data, <<108, 105, 110, 107, 115>>)>>,
                <<<<109, 101, 100, 105, 97>>, PyDict(<< <<<<105, 109, 97, 103, 101, 115>>, field(field(data, <<109, 101, 100, 105, 97>>), <<105, 109, 97, 103, 101, 115>>)>> >>)>>,
                <<<<108, 97, 116, 101, 110, 99, 121, 95, 109, 115>>, IF Lookup(data, <<108, 97, 116, 101, 110, 99, 121, 95, 109, 115>>) # <<>>
                               THEN AsInt(field(data, <<108, 97, 116, 101, 110, 99, 121, 95, 109, 115>>))[1] ELSE PyInt(0)>> >>))
       ELSE Raise("Exception", "Invalid answer structure")

\* RerankResult(**data): data must be a mapping; results is a list of items with an
\* id taken as an int and a score taken as a float
RerankResult(data) ==
    LET field(d, key) == Lookup(d, key)[1]
        IsItem(x) == /\ x.t = "dict"
                     /\ Lookup(x, <<105, 100>>) # <<>> /\ AsInt(field(x, <<105, 100>>)) # <<>>
                     /\ Lookup(x, <<115, 99, 111, 114, 101>>) # <<>> /\ AsFloat(field(x, <<115, 99, 111, 114, 101>>)) # <<>>
        items == field(data, <<114, 101, 115, 117, 108, 116, 115>>).v
    IN IF data.t # "dict" THEN Raise("TypeError", "")
       ELSE IF /\ Lookup(data, <<114, 101, 115, 117, 108, 116, 115>>) # <<>>
               /\ field(data, <<114, 101, 115, 117, 108, 116, 115>>).t = "list"
               /\ \A n \in 1..Len(items) : IsItem(items[n])
       THEN Return(PyDict(<< <<<<114, 101, 115, 117, 108, 116, 115>>,
                PyList([n \in 1..Len(items) |->
                    PyDict(<< <<<<105, 100>>, AsInt(field(items[n], <<105, 100>>))[1]>>,
                              <<<<115, 99, 111, 114, 101>>, AsFloat(field(items[n], <<115, 99, 111, 114, 101>>))[1]>> >>)])>> >>))
       ELSE Raise("ValidationError", "")

\* generate_structured_answer from the raw reply on: json.loads, on a decoding
\* error the text between the braces, then the validation
parse_generator_output(raw_output) ==
    CHOOSE out \in
        {IF direct.kind = "return" THEN ValidatedAnswer(direct.value)
         ELSE CHOOSE fb \in
                {IF cleaned.kind = "return" THEN ValidatedAnswer(cleaned.value)
                 ELSE Raise("Exception", "Failed to parse LLM output as JSON")
                 : cleaned \in {json_loads(BraceSubstring(raw_output))}} : TRUE
         : direct \in {json_loads(raw_output)}} : TRUE

\* score_passages from the raw reply on: the text between the braces is the only
\* thing parsed, and a decoding error is raised again
parse_reranker_output(raw) ==
    CHOOSE out \in
        {IF cleaned.kind = "return" THEN RerankResult(cleaned.value) ELSE cleaned
         : cleaned \in {json_loads(BraceSubstring(raw))}} : TRUE

(***************************************************************************)
(* One reply parsed by the generator or by the reranker                    *)
(***************************************************************************)
MaxRawChars == 3

\* the short replies made of { } [ ] 0 " and some longer ones
RawOutputs ==
    StringsUpTo({123, 125, 91, 93, 48, 34}, MaxRawChars) \cup
    \* Sure! {"results": [{"id":0,"score":0.9}]} Thanks
    { <<83, 117, 114, 101, 33, 32, 123, 34, 114, 101, 115, 117, 108, 116, 115, 34, 58, 32, 91,
      123, 34, 105, 100, 34, 58, 48, 44, 34, 115, 99, 111, 114, 101, 34, 58, 48, 46, 57, 125,
      93, 125, 32, 84, 104, 97, 110, 107, 115>>,
    \* {"results": [{"id": 0, "score": 0.9}]}
      <<123, 34, 114, 101, 115, 117, 108, 116, 115, 34, 58, 32, 91, 123, 34, 105, 100, 34, 58,
      32, 48, 44, 32, 34, 115, 99, 111, 114, 101, 34, 58, 32, 48, 46, 57, 125, 93, 125>>,
    \* [{"results": []}]
      <<91, 123, 34, 114, 101, 115, 117, 108, 116, 115, 34, 58, 32, 91, 93, 125, 93>>,
    \* {"results": []} }
      <<123, 34, 114, 101, 115, 117, 108, 116, 115, 34, 58, 32, 91, 93, 125, 32, 125>>,
    \* no json here
      <<110, 111, 32, 106, 115, 111, 110, 32, 104, 101, 114, 101>>,
    \* Sure! {"results": [
      <<83, 117, 114, 101, 33, 32, 123, 34, 114, 101, 115, 117, 108, 116, 115, 34, 58, 32, 91>>,
    \* "results": []}
      <<34, 114, 101, 115, 117, 108, 116, 115, 34, 58, 32, 91, 93, 125>>,
    \* {"results": [{"id": 1, "score": 25e-2}], "note": null}
      <<123, 34, 114, 101, 115, 117, 108, 116, 115, 34, 58, 32, 91, 123, 34, 105, 100, 34, 58,
      32, 49, 44, 32, 34, 115, 99, 111, 114, 101, 34, 58, 32, 50, 53, 101, 45, 50, 125, 93, 44,
      32, 34, 110, 111, 116, 101, 34, 58, 32, 110, 117, 108, 108, 125>>,
    \* {"answer": {"title": "Doors", "summary": "Keep shut", "steps": [], "verification": []}, "links": [], "media": {"images": []}}
      <<123, 34, 97, 110, 115, 119, 101, 114, 34, 58, 32, 123, 34, 116, 105, 116, 108, 101, 34,
      58, 32, 34, 68, 111, 111, 114, 115, 34, 44, 32, 34, 115, 117, 109, 109, 97, 114, 121, 34,
      58, 32, 34, 75, 101, 101, 112, 32, 115, 104, 117, 116, 34, 44, 32, 34, 115, 116, 101,
      112, 115, 34, 58, 32, 91, 93, 44, 32, 34, 118, 101, 114, 105, 102, 105, 99, 97, 116, 105,
      111, 110, 34, 58, 32, 91, 93, 125, 44, 32, 34, 108, 105, 110, 107, 115, 34, 58, 32, 91,
      93, 44, 32, 34, 109, 101, 100, 105, 97, 34, 58, 32, 123, 34, 105, 109, 97, 103, 101, 115,
      34, 58, 32, 91, 93, 125, 125>>,
    \* Here: {"answer": {"title": "Doors", "summary": "Keep shut", "steps": [], "verification": []}, "links": [], "media": {"images": []}} ok
      <<72, 101, 114, 101, 58, 32, 123, 34, 97, 110, 115, 119, 101, 114, 34, 58, 32, 123, 34,
      116, 105, 116, 108, 101, 34, 58, 32, 34, 68, 111, 111, 114, 115, 34, 44, 32, 34, 115,
      117, 109, 109, 97, 114, 121, 34, 58, 32, 34, 75, 101, 101, 112, 32, 115, 104, 117, 116,
      34, 44, 32, 34, 115, 116, 101, 112, 115, 34, 58, 32, 91, 93, 44, 32, 34, 118, 101, 114,
      105, 102, 105, 99, 97, 116, 105, 111, 110, 34, 58, 32, 91, 93, 125, 44, 32, 34, 108, 105,
      110, 107, 115, 34, 58, 32, 91, 93, 44, 32, 34, 109, 101, 100, 105, 97, 34, 58, 32, 123,
      34, 105, 109, 97, 103, 101, 115, 34, 58, 32, 91, 93, 125, 125, 32, 111, 107>>,
    \* [{"answer": {"title": "Doors", "summary": "Keep shut", "steps": [], "verification": []}, "links": [], "media": {"images": []}}]
      <<91, 123, 34, 97, 110, 115, 119, 101, 114, 34, 58, 32, 123, 34, 116, 105, 116, 108, 101,
      34, 58, 32, 34, 68, 111, 111, 114, 115, 34, 44, 32, 34, 115, 117, 109, 109, 97, 114, 121,
      34, 58, 32, 34, 75, 101, 101, 112, 32, 115, 104, 117, 116, 34, 44, 32, 34, 115, 116, 101,
      112, 115, 34, 58, 32, 91, 93, 44, 32, 34, 118, 101, 114, 105, 102, 105, 99, 97, 116, 105,
      111, 110, 34, 58, 32, 91, 93, 125, 44, 32, 34, 108, 105, 110, 107, 115, 34, 58, 32, 91,
      93, 44, 32, 34, 109, 101, 100, 105, 97, 34, 58, 32, 123, 34, 105, 109, 97, 103, 101, 115,
      34, 58, 32, 91, 93, 125, 125, 93>>,
    \* {"results": [{"id": "1", "score": NaN}]}
      <<123, 34, 114, 101, 115, 117, 108, 116, 115, 34, 58, 32, 91, 123, 34, 105, 100, 34, 58, 32, 34,
      49, 34, 44, 32, 34, 115, 99, 111, 114, 101, 34, 58, 32, 78, 97, 78, 125, 93, 125>>,
    \* {"results": [{"id": 0, "score": 1e400}, {"id": 1.0, "score": "0.5"}]}
      <<123, 34, 114, 101, 115, 117, 108, 116, 115, 34, 58, 32, 91, 123, 34, 105, 100, 34, 58, 32, 48,
      44, 32, 34, 115, 99, 111, 114, 101, 34, 58, 32, 49, 101, 52, 48, 48, 125, 44, 32, 123, 34,
      105, 100, 34, 58, 32, 49, 46, 48, 44, 32, 34, 115, 99, 111, 114, 101, 34, 58, 32, 34, 48, 46,
      53, 34, 125, 93, 125>>,
    \* {"answer": {"title": "Doors \u0026 exits", "summary": "Keep shut", "steps": [], "verification": []}, "links": [], "media": {"images": []}, "latency_ms": "5"}
      <<123, 34, 97, 110, 115, 119, 101, 114, 34, 58, 32, 123, 34, 116, 105, 116, 108, 101, 34, 58,
      32, 34, 68, 111, 111, 114, 115, 32, 92, 117, 48, 48, 50, 54, 32, 101, 120, 105, 116, 115, 34,
      44, 32, 34, 115, 117, 109, 109, 97, 114, 121, 34, 58, 32, 34, 75, 101, 101, 112, 32, 115, 104,
      117, 116, 34, 44, 32, 34, 115, 116, 101, 112, 115, 34, 58, 32, 91, 93, 44, 32, 34, 118, 101,
      114, 105, 102, 105, 99, 97, 116, 105, 111, 110, 34, 58, 32, 91, 93, 125, 44, 32, 34, 108, 105,
      110, 107, 115, 34, 58, 32, 91, 93, 44, 32, 34, 109, 101, 100, 105, 97, 34, 58, 32, 123, 34,
      105, 109, 97, 103, 101, 115, 34, 58, 32, 91, 93, 125, 44, 32, 34, 108, 97, 116, 101, 110, 99,
      121, 95, 109, 115, 34, 58, 32, 34, 53, 34, 125>>,
    \* {"results": [{"id": 0, "score": 3e-324}, {"id": 1, "score": "1.4e-323"}]}
      <<123, 34, 114, 101, 115, 117, 108, 116, 115, 34, 58, 32, 91, 123, 34, 105, 100, 34, 58, 32, 48,
      44, 32, 34, 115, 99, 111, 114, 101, 34, 58, 32, 51, 101, 45, 51, 50, 52, 125, 44, 32, 123, 34,
      105, 100, 34, 58, 32, 49, 44, 32, 34, 115, 99, 111, 114, 101, 34, 58, 32, 34, 49, 46, 52, 101,
      45, 51, 50, 51, 34, 125, 93, 125>> }

GeneratorParses ==
    /\ gcall = NoCall
    /\ \E raw_output \in RawOutputs :
          gcall' = [fn |-> "generate_structured_answer", args |-> <<raw_output>>,
                    result |-> parse_generator_output(raw_output),
                    warned |-> json_loads(raw_output).kind = "raise"]
    /\ UNCHANGED ragVars
    /\ UNCHANGED pipeVars

RerankerParses ==
    /\ gcall = NoCall
    /\ \E raw \in RawOutputs :
          gcall' = [fn |-> "score_passages", args |-> <<raw>>,
                    result |-> parse_reranker_output(raw),
                    warned |-> FALSE]
    /\ UNCHANGED ragVars
    /\ UNCHANGED pipeVars

ParseNext == GeneratorParses \/ RerankerParses

ParseSpec == GuardInit /\ [][ParseNext]_vars

\* what parsing directly, then between the braces, gives for a validation
TwoStage(raw, Validate(_)) ==
    IF json_loads(raw).kind = "return" THEN Validate(json_loads(raw).value)
    ELSE IF json_loads(BraceSubstring(raw)).kind = "return"
    THEN Validate(json_loads(BraceSubstring(raw)).value)
    ELSE Raise("Exception", "")

\* C28: the reply is parsed directly first and the text from the first { to the
\* last } is parsed only when that fails; when both fail the call raises; a
\* reply that wraps valid JSON in prose gives that JSON's content; a reply
\* without { or without } always raises.  Stated for the generator and for the
\* reranker.
TwoStageParsing ==
    gcall.fn \in {"generate_structured_answer", "score_passages"} =>
        LET raw == gcall.args[1]
            expected == IF gcall.fn = "score_passages"
                        THEN TwoStage(raw, RerankResult)
                        ELSE TwoStage(raw, ValidatedAnswer)
        IN /\ gcall.result.kind = expected.kind
           /\ gcall.result.kind = "return" => gcall.result.value = expected.value
           /\ (~InList(123, raw) \/ ~InList(125, raw)) => gcall.result.kind = "raise"

====
